---- MODULE Spec2Model ----
(***************************************************************************)
(* EmergencyConnect: the primary SOS countdown machine (core logic,        *)
(* src/unnamed/part_000), the emergency contact registry                   *)
(* (src/EmergencyCall/src/services/ContactService.js), the location cache  *)
(* (src/EmergencyCall/src/services/TestableLocationService.js) and the     *)
(* notification dispatcher (src/unnamed/part_002), with the power-button   *)
(* press counter (PowerButtonService.js), the SMS sender (SMSService.js)   *)
(* and the volume-button listener (src/unnamed/part_001).                  *)
(*                                                                         *)
(* Time is the wall clock in milliseconds (Date.now()).  Timers are the    *)
(* JavaScript runtime's one-shot setTimeout entries: a timer never runs    *)
(* before its due time, and the clock does not move past a due timer.      *)
(***************************************************************************)
EXTENDS Integers, Sequences, FiniteSets, TLC

\* ===== bounds of the model =====
MaxTime == 6000
MaxTimers == 3
MaxPresses == 3
MaxTriggers == 2
MaxEmergencyContacts == 1
MaxOrder == 3
MaxListLen == 11
MaxNotifications == 2
MaxDispatchTime == 10
MaxPowerPresses == 4
MaxRetentionTime == 15000
MaxVolumeEvents == 3

\* ===== timing and button constants (part_000) =====
COUNTDOWN_DURATION == 3000
MAX_BUTTON_INTERVAL == 5000
RETENTION_WINDOW == 10000

BUTTONS == {"volumeUp", "volumeDown", "power"}
BUTTON_ACTIONS == {"triplePress", "longPress", "quintupletPress"}

\* null of a timestamp, of a timer handle and of the button config
NullTime == -1
NullTimer == 0
NullConfig == [button |-> "null", action |-> "null"]

VARIABLES
    now,               \* Date.now()
    buttonConfig,      \* state.buttonConfig
    emergencyContacts, \* state.emergencyContacts
    networkStatus,     \* state.networkStatus
    sosState,          \* state.sosState
    uiState,           \* state.uiState
    buttonPresses,     \* state.buttonPresses
    callbacks,         \* state.callbacks: which callbacks are registered
    countdownTimer,    \* state.countdownTimer: handle of the last setTimeout
    timers,            \* pending setTimeout entries of the runtime
    nextTimerId,       \* next handle setTimeout returns
    triggerCalls,      \* observer: number of SOSService.trigger() calls
    commits,           \* observer: number of trigger() calls that sent the SOS
    callbackCalls,     \* observer: number of onSOSTriggered invocations
    staleTimers,       \* observer: pending timers that a cancel() has outlived
    pressCount,        \* observer: number of handleVolumeButtonPress calls
    contactsByPhone,   \* ContactService._contactsByPhone
    contactOrder,      \* ContactService._contactOrder
    lastError,         \* error thrown by the last ContactService call
    rawPhones,         \* observer: per entry of contactOrder, the phone as it was passed in
    lastCall,          \* observer: the last ContactService call, its argument and return value
    currentLocation,      \* TestableLocationService._currentLocation
    lastKnownLocation,    \* TestableLocationService._lastKnownLocation
    isLocationUnavailable, \* TestableLocationService._isLocationUnavailable
    lastValidLocation,    \* observer: the last valid location passed to a setter
    lastLocationCall,     \* observer: the last TestableLocationService call
    notificationHistory,  \* EmergencyService._notificationHistory
    sentMessages,         \* EmergencyService._sentMessages
    lastNotificationId,   \* EmergencyService._lastNotificationId
    statistics,           \* EmergencyService._statistics
    inFlight,             \* sendEmergencyNotification calls that have not returned yet
    responses,            \* observer: what each finished sendEmergencyNotification returned or threw
    powerState,           \* PowerButtonService._state
    powerPressCount,      \* PowerButtonService._pressCount
    pressTimeout,         \* PowerButtonService._pressTimeout: handle of its setTimeout
    powerTimers,          \* pending setTimeout entries of PowerButtonService
    nextPowerTimerId,     \* next handle setTimeout returns to PowerButtonService
    powerPresses,         \* observer: number of triggerPowerButton calls
    firstPressAt,         \* observer: time of the press that made _pressCount 1
    timeoutsFired,        \* observer: number of press timeouts that have run
    lastTriggerResult,    \* observer: what the last EmergencyConnect.triggerSOS() returned
    smsAvailable,         \* SMSService.isAvailable
    smsCall,              \* observer: the last sendEmergencySMS call and what the platform did
    smsResults,           \* observer: what the last sendEmergencySMS returned
    pressStartTime,       \* PhysicalButtonService.pressStartTime
    volumeTimeout,        \* PhysicalButtonService.pressTimeout: handle of its setTimeout
    volumeTimers,         \* pending setTimeout entries of PhysicalButtonService
    nextVolumeTimerId,    \* next handle setTimeout returns to PhysicalButtonService
    isEmergencyTriggered, \* PhysicalButtonService.isEmergencyTriggered
    emergencyModeWaiting, \* a triggerEmergencyMode call awaits AsyncStorage.getItem
    alertOpen,            \* the confirmation alert of triggerEmergencyMode is on screen
    volumeEvents,         \* observer: number of volume-change events handled
    emergencyModeCalls,   \* observer: number of triggerEmergencyMode calls
    handlingsStarted      \* observer: number of calls that got past the re-entry guard

sosVars == <<now, buttonConfig, emergencyContacts, networkStatus, sosState,
             uiState, buttonPresses, callbacks, countdownTimer, timers,
             nextTimerId, triggerCalls, commits, callbackCalls, staleTimers, pressCount>>
contactVars == <<contactsByPhone, contactOrder, lastError, rawPhones, lastCall>>
locationVars == <<currentLocation, lastKnownLocation, isLocationUnavailable,
                  lastValidLocation, lastLocationCall>>
dispatchVars == <<notificationHistory, sentMessages, lastNotificationId, statistics,
                  inFlight, responses>>
powerVars == <<powerState, powerPressCount, pressTimeout, powerTimers, nextPowerTimerId,
               powerPresses, firstPressAt, timeoutsFired>>
triggerVars == <<lastTriggerResult>>
smsVars == <<smsAvailable, smsCall, smsResults>>
volumeVars == <<pressStartTime, volumeTimeout, volumeTimers, nextVolumeTimerId,
                isEmergencyTriggered, emergencyModeWaiting, alertOpen, volumeEvents,
                emergencyModeCalls, handlingsStarted>>
peripheralVars == <<smsVars, volumeVars>>
serviceVars == <<contactVars, locationVars, dispatchVars, powerVars, triggerVars,
                 peripheralVars>>
machineVars == <<sosVars, powerVars, triggerVars, peripheralVars>>
vars == <<sosVars, serviceVars>>

\* ===== EmergencyState =====
createInitialSOSState ==
    [initiated |-> FALSE, sent |-> FALSE, timestamp |-> NullTime,
     emergencyOverride |-> FALSE, crashResistant |-> FALSE]

createInitialUIState ==
    [showCancelButton |-> FALSE, cancelButtonVisible |-> FALSE]

\* ===== Validators =====
isValidButton(button) == button \in BUTTONS

isValidAction(action) == action \in BUTTON_ACTIONS

isValidButtonConfig(config) ==
    isValidButton(config.button) /\ isValidAction(config.action)

Digits == {"0", "1", "2", "3", "4", "5", "6", "7", "8", "9"}

\* /^[0-9-]+$/.test(phone) && phone.length >= 10
isValidPhoneNumber(phone) ==
    /\ Len(phone) > 0
    /\ \A i \in 1..Len(phone) : phone[i] \in Digits \cup {"-"}
    /\ Len(phone) >= 10

isValidContact(contact) ==
    /\ contact.id # ""
    /\ contact.name # ""
    /\ isValidPhoneNumber(contact.phone)

\* ===== Utils =====
calculateIntervals(timestamps) ==
    IF Len(timestamps) < 2 THEN <<>>
    ELSE [i \in 1..(Len(timestamps) - 1) |-> timestamps[i + 1] - timestamps[i]]

\* faulty variant: the threshold itself counts as regular (> instead of >=)
hasIrregularIntervalStrict(intervals) ==
    \E i \in 1..Len(intervals) : intervals[i] > MAX_BUTTON_INTERVAL

hasIrregularInterval(intervals) ==
    \E i \in 1..Len(intervals) : intervals[i] >= MAX_BUTTON_INTERVAL

\* ===== EmergencyContactManager =====
hasContacts(contacts) == Len(contacts) > 0

\* ===== MisFirePreventionService: press validation =====
\* faulty variant: a lone press is not yet a valid SOS
validatePressIntervalsNeedsTwo(presses) ==
    IF Len(presses) < 2
    THEN [isValidSOS |-> FALSE, isFalsePositive |-> FALSE, reason |-> ""]
    ELSE LET timestamps == [i \in 1..Len(presses) |-> presses[i].timestamp]
             intervals == calculateIntervals(timestamps)
         IN IF hasIrregularInterval(intervals)
            THEN [isValidSOS |-> FALSE, isFalsePositive |-> TRUE,
                  reason |-> "irregular"]
            ELSE [isValidSOS |-> TRUE, isFalsePositive |-> FALSE, reason |-> ""]

validatePressIntervals(presses) ==
    IF Len(presses) < 2
    THEN [isValidSOS |-> TRUE, isFalsePositive |-> FALSE, reason |-> ""]
    ELSE LET timestamps == [i \in 1..Len(presses) |-> presses[i].timestamp]
             intervals == calculateIntervals(timestamps)
         IN IF hasIrregularInterval(intervals)
            THEN [isValidSOS |-> FALSE, isFalsePositive |-> TRUE,
                  reason |-> "irregular"]
            ELSE [isValidSOS |-> TRUE, isFalsePositive |-> FALSE, reason |-> ""]

\* faulty variant: the button of the last press is not compared with the config
validateButtonSequenceAnyButton(config, presses) ==
    IF config = NullConfig
    THEN [isValidSOS |-> FALSE, isFalsePositive |-> FALSE, reason |-> "noConfig"]
    ELSE IF Len(presses) = 0
    THEN [isValidSOS |-> FALSE, isFalsePositive |-> FALSE, reason |-> "noPress"]
    ELSE validatePressIntervals(presses)

validateButtonSequence(config, presses) ==
    IF config = NullConfig
    THEN [isValidSOS |-> FALSE, isFalsePositive |-> FALSE, reason |-> "noConfig"]
    ELSE IF Len(presses) = 0
    THEN [isValidSOS |-> FALSE, isFalsePositive |-> FALSE, reason |-> "noPress"]
    ELSE IF presses[Len(presses)].button # config.button
    THEN [isValidSOS |-> FALSE, isFalsePositive |-> FALSE, reason |-> "otherButton"]
    ELSE validatePressIntervals(presses)

\* ===== inputs =====
ConfigInputs ==
    {[button |-> "volumeUp", action |-> "triplePress"],
     [button |-> "home", action |-> "triplePress"],
     [button |-> "volumeUp", action |-> "swipe"]}

PressInputs == {"volumeUp", "volumeDown"}

Phone1 == <<"0", "9", "0", "-", "1", "2", "3", "4", "-", "5", "6", "7", "8">>
PhoneShort == <<"1", "2", "3">>

CoreContactInputs ==
    {[id |-> "1", name |-> "A", phone |-> Phone1],
     [id |-> "2", name |-> "B", phone |-> PhoneShort],
     [id |-> "", name |-> "C", phone |-> Phone1]}

\* steps of the wall clock: half a countdown, and one second between presses
CountdownDelays == {1500}
Delays == {1000}
E2EDelays == {400}

\* ===== SOSService =====
\* faulty variant: the network flag is not checked before sending
TriggerNoNetworkCheck(sos) ==
    /\ triggerCalls' = triggerCalls + 1
    /\ IF ~hasContacts(emergencyContacts)
       THEN sosState' = sos /\ UNCHANGED <<commits, callbackCalls>>
       ELSE /\ sosState' = [sos EXCEPT !.sent = TRUE, !.timestamp = now]
            /\ commits' = commits + 1
            /\ callbackCalls' = IF callbacks.onSOSTriggered
                                THEN callbackCalls + 1 ELSE callbackCalls

\* the effect of SOSService.trigger() on sosState and the observers
Trigger(sos) ==
    /\ triggerCalls' = triggerCalls + 1
    /\ IF ~hasContacts(emergencyContacts)
       THEN sosState' = sos /\ UNCHANGED <<commits, callbackCalls>>
       ELSE IF ~networkStatus
       THEN sosState' = sos /\ UNCHANGED <<commits, callbackCalls>>
       ELSE /\ sosState' = [sos EXCEPT !.sent = TRUE, !.timestamp = now]
            /\ commits' = commits + 1
            /\ callbackCalls' = IF callbacks.onSOSTriggered
                                THEN callbackCalls + 1 ELSE callbackCalls

\* ===== MisFirePreventionService.initiateSOS =====
\* everything initiateSOS() writes, given the sosState it starts from
Initiate(sos) ==
    /\ sosState' = [sos EXCEPT !.initiated = TRUE]
    /\ uiState' = [showCancelButton |-> TRUE, cancelButtonVisible |-> TRUE]
    /\ timers' = timers \cup {[id |-> nextTimerId, due |-> now + COUNTDOWN_DURATION]}
    /\ countdownTimer' = nextTimerId
    /\ nextTimerId' = nextTimerId + 1

\* ===== the operations =====
setButtonConfig(config) ==
    /\ buttonConfig' = IF isValidButtonConfig(config) THEN config ELSE buttonConfig
    /\ UNCHANGED <<now, emergencyContacts, networkStatus, sosState, uiState,
                   buttonPresses, callbacks, countdownTimer, timers, nextTimerId,
                   triggerCalls, commits, callbackCalls, staleTimers, pressCount,
                   serviceVars>>

addContact(contact) ==
    /\ Len(emergencyContacts) < MaxEmergencyContacts
    /\ emergencyContacts' = IF isValidContact(contact)
                            THEN Append(emergencyContacts, contact)
                            ELSE emergencyContacts
    /\ UNCHANGED <<now, buttonConfig, networkStatus, sosState, uiState,
                   buttonPresses, callbacks, countdownTimer, timers, nextTimerId,
                   triggerCalls, commits, callbackCalls, staleTimers, pressCount,
                   serviceVars>>

clearAll ==
    /\ emergencyContacts' = <<>>
    /\ UNCHANGED <<now, buttonConfig, networkStatus, sosState, uiState,
                   buttonPresses, callbacks, countdownTimer, timers, nextTimerId,
                   triggerCalls, commits, callbackCalls, staleTimers, pressCount,
                   serviceVars>>

setNetworkStatus(status) ==
    /\ networkStatus' = status
    /\ UNCHANGED <<now, buttonConfig, emergencyContacts, sosState, uiState,
                   buttonPresses, callbacks, countdownTimer, timers, nextTimerId,
                   triggerCalls, commits, callbackCalls, staleTimers, pressCount,
                   serviceVars>>

setCallback(registered) ==
    /\ callbacks' = [callbacks EXCEPT !.onSOSTriggered = registered]
    /\ UNCHANGED <<now, buttonConfig, emergencyContacts, networkStatus, sosState,
                   uiState, buttonPresses, countdownTimer, timers, nextTimerId,
                   triggerCalls, commits, callbackCalls, staleTimers, pressCount,
                   serviceVars>>

initiateSOS ==
    /\ nextTimerId <= MaxTimers
    /\ Initiate(sosState)
    /\ UNCHANGED <<now, buttonConfig, emergencyContacts, networkStatus,
                   buttonPresses, callbacks, triggerCalls, commits, callbackCalls,
                   staleTimers, pressCount, serviceVars>>

\* faulty variant: the handle is forgotten without clearTimeout
cancelSOSNoClear ==
    /\ IF countdownTimer # NullTimer
       THEN /\ timers' = timers
            /\ countdownTimer' = NullTimer
       ELSE UNCHANGED <<timers, countdownTimer>>
    /\ sosState' = [sosState EXCEPT !.initiated = FALSE]
    /\ uiState' = [showCancelButton |-> FALSE, cancelButtonVisible |-> FALSE]
    /\ staleTimers' = {t.id : t \in timers'}
    /\ UNCHANGED <<now, buttonConfig, emergencyContacts, networkStatus,
                   buttonPresses, callbacks, nextTimerId, triggerCalls, commits,
                   callbackCalls, pressCount, serviceVars>>

cancelSOS ==
    /\ IF countdownTimer # NullTimer
       THEN /\ timers' = {t \in timers : t.id # countdownTimer}
            /\ countdownTimer' = NullTimer
       ELSE UNCHANGED <<timers, countdownTimer>>
    /\ sosState' = [sosState EXCEPT !.initiated = FALSE]
    /\ uiState' = [showCancelButton |-> FALSE, cancelButtonVisible |-> FALSE]
    /\ staleTimers' = {t.id : t \in timers'}
    /\ UNCHANGED <<now, buttonConfig, emergencyContacts, networkStatus,
                   buttonPresses, callbacks, nextTimerId, triggerCalls, commits,
                   callbackCalls, pressCount, serviceVars>>

triggerSOS ==
    /\ triggerCalls < MaxTriggers
    /\ Trigger(sosState)
    /\ UNCHANGED <<now, buttonConfig, emergencyContacts, networkStatus, uiState,
                   buttonPresses, callbacks, countdownTimer, timers, nextTimerId,
                   staleTimers, pressCount, serviceVars>>

\* faulty variant: the callback commits when the countdown is NOT initiated
TimerCallbackInverted(t) ==
    /\ t \in timers
    /\ t.due <= now
    /\ timers' = timers \ {t}
    /\ staleTimers' = staleTimers \ {t.id}
    /\ IF ~sosState.initiated
       THEN Trigger(sosState)
       ELSE UNCHANGED <<sosState, triggerCalls, commits, callbackCalls>>
    /\ UNCHANGED <<now, buttonConfig, emergencyContacts, networkStatus, uiState,
                   buttonPresses, callbacks, countdownTimer, nextTimerId,
                   pressCount, serviceVars>>

\* the setTimeout callback of initiateSOS, run for the due timer t
TimerCallback(t) ==
    /\ t \in timers
    /\ t.due <= now
    /\ timers' = timers \ {t}
    /\ staleTimers' = staleTimers \ {t.id}
    /\ IF sosState.initiated
       THEN Trigger(sosState)
       ELSE UNCHANGED <<sosState, triggerCalls, commits, callbackCalls>>
    /\ UNCHANGED <<now, buttonConfig, emergencyContacts, networkStatus, uiState,
                   buttonPresses, callbacks, countdownTimer, nextTimerId,
                   pressCount, serviceVars>>

\* the runtime runs the callback of some pending timer that is due
countdownElapsed == \E t \in timers : TimerCallback(t)

\* faulty variant: a press exactly RETENTION_WINDOW old is kept
handleVolumeButtonPressKeepingBoundary(button) ==
    /\ pressCount < MaxPresses
    /\ nextTimerId <= MaxTimers
    /\ LET timestamp == now
           pushed == Append(buttonPresses, [button |-> button, timestamp |-> timestamp])
           cutoffTime == timestamp - RETENTION_WINDOW
           Recent(press) == press.timestamp >= cutoffTime
           kept == SelectSeq(pushed, Recent)
           validation == validateButtonSequence(buttonConfig, kept)
       IN /\ buttonPresses' = kept
          /\ IF validation.isValidSOS
             THEN Initiate(sosState)
             ELSE UNCHANGED <<sosState, uiState, timers, countdownTimer,
                              nextTimerId>>
    /\ pressCount' = pressCount + 1
    /\ UNCHANGED <<now, buttonConfig, emergencyContacts, networkStatus, callbacks,
                   triggerCalls, commits, callbackCalls, staleTimers, serviceVars>>

handleVolumeButtonPress(button) ==
    /\ pressCount < MaxPresses
    /\ nextTimerId <= MaxTimers
    /\ LET timestamp == now
           pushed == Append(buttonPresses, [button |-> button, timestamp |-> timestamp])
           cutoffTime == timestamp - RETENTION_WINDOW
           Recent(press) == press.timestamp > cutoffTime
           kept == SelectSeq(pushed, Recent)
           validation == validateButtonSequence(buttonConfig, kept)
       IN /\ buttonPresses' = kept
          /\ IF validation.isValidSOS
             THEN Initiate(sosState)
             ELSE UNCHANGED <<sosState, uiState, timers, countdownTimer,
                              nextTimerId>>
    /\ pressCount' = pressCount + 1
    /\ UNCHANGED <<now, buttonConfig, emergencyContacts, networkStatus, callbacks,
                   triggerCalls, commits, callbackCalls, staleTimers, serviceVars>>

\* every pending setTimeout entry of the runtime
AllTimers == timers \cup powerTimers \cup volumeTimers

\* the wall clock advances, never past a pending timer's due time
advanceTime(d) ==
    /\ now + d <= MaxTime
    /\ \A t \in AllTimers : now + d <= t.due
    /\ now' = now + d
    /\ UNCHANGED <<buttonConfig, emergencyContacts, networkStatus, sosState,
                   uiState, buttonPresses, callbacks, countdownTimer, timers,
                   nextTimerId, triggerCalls, commits, callbackCalls, staleTimers, pressCount, serviceVars>>

\* the wall clock advances over the span of the press retention window
advanceRetention(d) ==
    /\ now + d <= MaxRetentionTime
    /\ \A t \in AllTimers : now + d <= t.due
    /\ now' = now + d
    /\ UNCHANGED <<buttonConfig, emergencyContacts, networkStatus, sosState,
                   uiState, buttonPresses, callbacks, countdownTimer, timers,
                   nextTimerId, triggerCalls, commits, callbackCalls, staleTimers, pressCount, serviceVars>>

\* the clock reaches the due time of the earliest pending timer
advanceToDue ==
    /\ AllTimers # {}
    /\ LET due == CHOOSE d \in {t.due : t \in AllTimers} :
                      \A t \in AllTimers : d <= t.due
       IN /\ due > now
          /\ due <= MaxTime
          /\ now' = due
    /\ UNCHANGED <<buttonConfig, emergencyContacts, networkStatus, sosState,
                   uiState, buttonPresses, callbacks, countdownTimer, timers,
                   nextTimerId, triggerCalls, commits, callbackCalls, staleTimers, pressCount, serviceVars>>

\* ===== ContactService =====
MAX_CONTACTS == 10

\* a missing (undefined, non-string) phone of an input contact
Undefined == <<"undefined">>

\* phone.replace(/[-\s()]/g, '')
_normalizePhoneNumber(phone) ==
    LET Kept(c) == c \notin {"-", " ", "\t", "\n", "(", ")"}
    IN SelectSeq(phone, Kept)

AllDigits(s, from) == \A i \in from..Len(s) : s[i] \in Digits

\* /^(0\d{9,10}|(\+81|81)\d{9,10})$/.test(normalizedPhone)
_isValidPhoneNumber(phone) ==
    LET n == _normalizePhoneNumber(phone)
    IN \/ /\ Len(n) \in {10, 11}
          /\ n[1] = "0"
          /\ AllDigits(n, 2)
       \/ /\ Len(n) \in {12, 13}
          /\ n[1] = "+" /\ n[2] = "8" /\ n[3] = "1"
          /\ AllDigits(n, 4)
       \/ /\ Len(n) \in {11, 12}
          /\ n[1] = "8" /\ n[2] = "1"
          /\ AllDigits(n, 3)

_normalizeContact(contact) ==
    [name |-> IF contact.name = "" THEN "unnamed" ELSE contact.name,
     phone |-> _normalizePhoneNumber(contact.phone),
     addedAt |-> now,
     priority |-> IF contact.priority = "" THEN "normal" ELSE contact.priority]

\* Map.prototype.has / set / delete on a map held as a function
MapHas(map, key) == key \in DOMAIN map

MapSet(map, key, value) ==
    [k \in (DOMAIN map) \cup {key} |-> IF k = key THEN value ELSE map[k]]

MapDelete(map, key) == [k \in (DOMAIN map) \ {key} |-> map[k]]

getContactCount(map) == Cardinality(DOMAIN map)

\* the error _validateContactFormat throws, "none" when it returns
_validateContactFormat(contact) ==
    IF contact.phone = Undefined \/ contact.phone = <<>> THEN "CONTACT_REQUIRED"
    ELSE IF ~_isValidPhoneNumber(contact.phone) THEN "INVALID_PHONE_FORMAT"
    ELSE "none"

_checkContactLimits(map) ==
    IF getContactCount(map) >= MAX_CONTACTS THEN "MAX_CONTACTS_EXCEEDED" ELSE "none"

_checkDuplicatePhone(map, phone) ==
    IF MapHas(map, phone) THEN "DUPLICATE_PHONE" ELSE "none"

\* _addValidatedContact on a registry <<map, order>>; phone.replace throws
\* a TypeError on a non-string phone and the registry is left as it was
_addValidatedContact(reg, contact) ==
    IF contact.phone = Undefined THEN reg
    ELSE LET normalizedContact == _normalizeContact(contact)
         IN <<MapSet(reg[1], normalizedContact.phone, normalizedContact),
              Append(reg[2], normalizedContact)>>

\* contacts.forEach(contact => try { _addValidatedContact } catch { warn })
RECURSIVE AddEach(_, _)
AddEach(reg, contacts) ==
    IF contacts = <<>> THEN reg
    ELSE AddEach(_addValidatedContact(reg, Head(contacts)), Tail(contacts))

getEmergencyContacts == contactOrder

findContactByPhone(phone) ==
    IF MapHas(contactsByPhone, phone) THEN <<contactsByPhone[phone]>> ELSE <<>>

PhoneA == <<"0", "9", "0", "-", "1", "2", "3", "4", "-", "5", "6", "7", "8">>
PhoneAPlain == <<"0", "9", "0", "1", "2", "3", "4", "5", "6", "7", "8">>
PhoneB == <<"0", "3", "-", "1", "2", "3", "4", "-", "5", "6", "7", "8">>
PhoneIntl == <<"+", "8", "1", "9", "0", "1", "2", "3", "4", "5", "6", "7", "8">>
PhoneBad == <<"1", "2", "3", "4", "5">>

PhoneInputs == {PhoneA, PhoneAPlain, PhoneB, PhoneIntl, PhoneBad, <<>>, Undefined}

ContactInputs ==
    {[name |-> n, phone |-> p, priority |-> ""] : n \in {"Taro"}, p \in PhoneInputs}
    \cup {[name |-> "", phone |-> PhoneA, priority |-> "high"]}

ListInputs ==
    {<<>>} \cup {<<c>> : c \in ContactInputs}
    \cup {<<c, d>> : c \in ContactInputs, d \in ContactInputs}

NoCall == [op |-> "none", contacts |-> <<>>, phone |-> <<>>, returned |-> FALSE]

\* the phones, as passed in, of the entries _addValidatedContact stores
RawPhonesOf(contacts) ==
    LET Stored(contact) == contact.phone # Undefined
        kept == SelectSeq(contacts, Stored)
    IN [i \in 1..Len(kept) |-> kept[i].phone]

setEmergencyContacts(contacts) ==
    /\ LET reg == AddEach(<<<<>>, <<>>>>, contacts)
       IN /\ contactsByPhone' = reg[1]
          /\ contactOrder' = reg[2]
    /\ lastError' = "none"
    /\ rawPhones' = RawPhonesOf(contacts)
    /\ lastCall' = [op |-> "set", contacts |-> contacts, phone |-> <<>>, returned |-> FALSE]
    /\ UNCHANGED <<machineVars, locationVars, dispatchVars>>

addEmergencyContact(contact) ==
    /\ LET formatError == _validateContactFormat(contact)
           limitError == _checkContactLimits(contactsByPhone)
           duplicateError == _checkDuplicatePhone(contactsByPhone, contact.phone)
           reg == _addValidatedContact(<<contactsByPhone, contactOrder>>, contact)
       IN IF formatError # "none"
          THEN lastError' = formatError
               /\ UNCHANGED <<contactsByPhone, contactOrder, rawPhones>>
          ELSE IF limitError # "none"
          THEN lastError' = limitError
               /\ UNCHANGED <<contactsByPhone, contactOrder, rawPhones>>
          ELSE IF duplicateError # "none"
          THEN lastError' = duplicateError
               /\ UNCHANGED <<contactsByPhone, contactOrder, rawPhones>>
          ELSE /\ contactsByPhone' = reg[1]
               /\ contactOrder' = reg[2]
               /\ rawPhones' = Append(rawPhones, contact.phone)
               /\ lastError' = "none"
    /\ lastCall' = [op |-> "add", contacts |-> <<contact>>, phone |-> <<>>, returned |-> FALSE]
    /\ UNCHANGED <<machineVars, locationVars, dispatchVars>>

\* addEmergencyContact while the list is shorter than the model's bound
addWithinOrder(contact) ==
    /\ Len(contactOrder) < MaxOrder
    /\ addEmergencyContact(contact)

\* the entries of the observer list whose contact the filter keeps
KeepRaw(order, raw, phone) ==
    LET kept == {i \in 1..Len(order) : order[i].phone # phone}
        Nth(n) == CHOOSE i \in kept : Cardinality({j \in kept : j <= i}) = n
    IN [n \in 1..Cardinality(kept) |-> raw[Nth(n)]]

removeEmergencyContact(phone) ==
    /\ IF ~MapHas(contactsByPhone, phone)
       THEN /\ UNCHANGED <<contactsByPhone, contactOrder, rawPhones>>
            /\ lastCall' = [op |-> "remove", contacts |-> <<>>, phone |-> phone,
                            returned |-> FALSE]
       ELSE /\ contactsByPhone' = MapDelete(contactsByPhone, phone)
            /\ contactOrder' = LET Other(contact) == contact.phone # phone
                               IN SelectSeq(contactOrder, Other)
            /\ rawPhones' = KeepRaw(contactOrder, rawPhones, phone)
            /\ lastCall' = [op |-> "remove", contacts |-> <<>>, phone |-> phone,
                            returned |-> TRUE]
    /\ lastError' = "none"
    /\ UNCHANGED <<machineVars, locationVars, dispatchVars>>

\* ===== TestableLocationService =====
\* A JavaScript value is held with its typeof; a coordinate is a whole
\* number of degrees.  A location is null or an object with the two
\* coordinate fields (the accuracy and timestamp fields are copied with it
\* and never read).
JsNumber(n) == [type |-> "number", value |-> n]
JsString == [type |-> "string", value |-> 1]
JsUndefined == [type |-> "undefined", value |-> 0]
JsBoolean(b) == [type |-> "boolean", value |-> IF b THEN 1 ELSE 0]

NullLocation == [kind |-> "null", latitude |-> JsUndefined, longitude |-> JsUndefined]

LocationOf(lat, lng) == [kind |-> "object", latitude |-> lat, longitude |-> lng]

\* Boolean(value)
ToBoolean(v) ==
    CASE v.type = "boolean" -> v.value = 1
      [] v.type = "number" -> v.value # 0
      [] v.type = "string" -> v.value # 0
      [] OTHER -> FALSE

_isValidCoordinate(latitude, longitude) ==
    /\ latitude >= -90 /\ latitude <= 90
    /\ longitude >= -180 /\ longitude <= 180

_isValidLocationData(location) ==
    /\ location.latitude.type = "number"
    /\ location.longitude.type = "number"
    /\ _isValidCoordinate(location.latitude.value, location.longitude.value)

\* what _validateLocation returns, or that it throws
_validateLocation(location) ==
    IF location.kind = "null" THEN [threw |-> FALSE, value |-> NullLocation]
    ELSE IF ~_isValidLocationData(location) THEN [threw |-> TRUE, value |-> NullLocation]
    ELSE [threw |-> FALSE, value |-> location]

getCurrentLocation ==
    IF isLocationUnavailable THEN NullLocation ELSE currentLocation

getLastKnownLocation == lastKnownLocation

\* faulty variant: reads the stored current location past the flag
getBestAvailableLocationIgnoringFlag ==
    IF currentLocation # NullLocation /\ _isValidLocationData(currentLocation)
    THEN currentLocation
    ELSE IF lastKnownLocation # NullLocation /\ _isValidLocationData(lastKnownLocation)
    THEN lastKnownLocation
    ELSE NullLocation

getBestAvailableLocation ==
    LET current == getCurrentLocation
    IN IF current # NullLocation /\ _isValidLocationData(current)
       THEN current
       ELSE IF lastKnownLocation # NullLocation /\ _isValidLocationData(lastKnownLocation)
       THEN lastKnownLocation
       ELSE NullLocation

Latitudes == {-91, -90, 35, 90, 91}
Longitudes == {-181, -180, 139, 180, 181}

LocationInputs ==
    {LocationOf(JsNumber(lat), JsNumber(lng)) : lat \in Latitudes, lng \in Longitudes}
    \cup {LocationOf(JsString, JsNumber(139)), LocationOf(JsNumber(35), JsUndefined),
          NullLocation}

FlagInputs == {JsBoolean(TRUE), JsBoolean(FALSE), JsNumber(1), JsNumber(0), JsUndefined}

IsValidInput(location) == location.kind = "object" /\ _isValidLocationData(location)

LocationCall(op, location, flag) ==
    [op |-> op, location |-> location, flag |-> flag, threw |-> FALSE]

\* faulty variant: stores the location without validating it
setCurrentLocationUnchecked(location) ==
    /\ currentLocation' = location
    /\ lastKnownLocation' = IF location # NullLocation THEN location
                            ELSE lastKnownLocation
    /\ lastValidLocation' = IF IsValidInput(location) THEN location ELSE lastValidLocation
    /\ lastLocationCall' = LocationCall("setCurrentLocation", location, JsUndefined)
    /\ UNCHANGED <<isLocationUnavailable, machineVars, contactVars, dispatchVars>>

setCurrentLocation(location) ==
    /\ LET validated == _validateLocation(location)
       IN IF validated.threw
          THEN \* catch: warn, this._currentLocation = null
               /\ currentLocation' = NullLocation
               /\ UNCHANGED lastKnownLocation
          ELSE /\ currentLocation' = validated.value
               /\ lastKnownLocation' = IF validated.value # NullLocation
                                       THEN validated.value
                                       ELSE lastKnownLocation
    /\ lastValidLocation' = IF IsValidInput(location) THEN location ELSE lastValidLocation
    /\ lastLocationCall' = LocationCall("setCurrentLocation", location, JsUndefined)
    /\ UNCHANGED <<isLocationUnavailable, machineVars, contactVars, dispatchVars>>

setLastKnownLocation(location) ==
    /\ LET validated == _validateLocation(location)
       IN IF validated.threw
          THEN \* catch: warn, this._lastKnownLocation = null
               lastKnownLocation' = NullLocation
          ELSE lastKnownLocation' = validated.value
    /\ lastValidLocation' = IF IsValidInput(location) THEN location ELSE lastValidLocation
    /\ lastLocationCall' = LocationCall("setLastKnownLocation", location, JsUndefined)
    /\ UNCHANGED <<currentLocation, isLocationUnavailable, machineVars, contactVars, dispatchVars>>

\* faulty variant: marking the location unavailable also drops the stored one
setLocationUnavailableClearing(unavailable) ==
    /\ isLocationUnavailable' = ToBoolean(unavailable)
    /\ currentLocation' = IF ToBoolean(unavailable) THEN NullLocation ELSE currentLocation
    /\ lastLocationCall' = LocationCall("setLocationUnavailable", NullLocation, unavailable)
    /\ UNCHANGED <<lastKnownLocation, lastValidLocation, machineVars, contactVars, dispatchVars>>

setLocationUnavailable(unavailable) ==
    /\ isLocationUnavailable' = ToBoolean(unavailable)
    /\ lastLocationCall' = LocationCall("setLocationUnavailable", NullLocation, unavailable)
    /\ UNCHANGED <<currentLocation, lastKnownLocation, lastValidLocation,
                   machineVars, contactVars, dispatchVars>>

\* reset(): back to the constructed state
resetLocation ==
    /\ currentLocation' = NullLocation
    /\ lastKnownLocation' = NullLocation
    /\ isLocationUnavailable' = FALSE
    /\ lastValidLocation' = NullLocation
    /\ lastLocationCall' = LocationCall("reset", NullLocation, JsUndefined)
    /\ UNCHANGED <<machineVars, contactVars, dispatchVars>>

LocationInit ==
    /\ currentLocation = NullLocation
    /\ lastKnownLocation = NullLocation
    /\ isLocationUnavailable = FALSE
    /\ lastValidLocation = NullLocation
    /\ lastLocationCall = LocationCall("none", NullLocation, JsUndefined)

\* ===== EmergencyService (part_002) =====
\* A call of sendEmergencyNotification runs in pieces: the call itself up to
\* its first await, the continuation that builds the message and launches
\* the sends (microtasks, before any timer of the runtime runs), and one
\* timer callback per send, SEND_DELAY ms later or more, in launch order.
SEND_DELAY == 10

InvalidMark == <<"I", "N", "V", "A", "L", "I", "D">>

\* String.prototype.includes
Includes(s, sub) ==
    \E i \in 1..(Len(s) - Len(sub) + 1) : SubSeq(s, i, i + Len(sub) - 1) = sub

\* phone.trim().length === 0
IsBlank(s) == \A i \in 1..Len(s) : s[i] \in {" ", "\t", "\n"}

_isInvalidPhoneNumber(phone) ==
    phone = <<>> \/ Includes(phone, InvalidMark) \/ IsBlank(phone)

hasEmergencyContacts == getContactCount(contactsByPhone) > 0

\* faulty variant: an empty registry passes the validation
validateEmergencyContactsNoEmptyCheck ==
    IF \E i \in 1..Len(contactOrder) : ~_isValidPhoneNumber(contactOrder[i].phone)
    THEN "INVALID_CONTACTS"
    ELSE "none"

\* the error validateEmergencyContacts throws, "none" when it returns
validateEmergencyContacts ==
    IF ~hasEmergencyContacts THEN "NO_CONTACTS"
    ELSE IF \E i \in 1..Len(contactOrder) : ~_isValidPhoneNumber(contactOrder[i].phone)
    THEN "INVALID_CONTACTS"
    ELSE "none"

\* validation.isValid is true whenever validateEmergencyContacts returns
_validatePrerequisites == validateEmergencyContacts

NullMessage ==
    [content |-> "null", location |-> NullLocation, timestamp |-> NullTime,
     messageId |-> <<NullTime, "null">>]

RandomSuffixes == {"r1", "r2"}

\* faulty variant: the message is built without the location
_createEmergencyMessageNoLocation(location, timestamp, suffix) ==
    [content |-> "EMERGENCY_ALERT", location |-> NullLocation, timestamp |-> timestamp,
     messageId |-> <<now, suffix>>]

_createEmergencyMessage(location, timestamp, suffix) ==
    [content |-> "EMERGENCY_ALERT", location |-> location, timestamp |-> timestamp,
     messageId |-> <<now, suffix>>]

PhonesOf(contacts) == [i \in 1..Len(contacts) |-> contacts[i].phone]

CountOf(results, value) == Cardinality({i \in 1..Len(results) : results[i] = value})

\* the promises handed to Promise.allSettled: each send promise carries a
\* .catch that turns its rejection into a value, so each one is fulfilled
SettledOf(contacts, results) ==
    [i \in 1..Len(results) |->
        [status |-> "fulfilled",
         value |-> [phone |-> contacts[i].phone, result |-> results[i]]]]

_buildSuccessResponse(id, call, sendResults) ==
    [success |-> TRUE, error |-> "none", notificationId |-> id,
     sentTo |-> Len(call.contacts),
     successful |-> Cardinality({i \in 1..Len(sendResults) :
                                    sendResults[i].status = "fulfilled"}),
     failed |-> Cardinality({i \in 1..Len(sendResults) :
                                sendResults[i].status = "rejected"}),
     timestamp |-> call.message.timestamp,
     registryAtCall |-> call.registryAtCall]

\* faulty variant: the completed notification is not counted
CompleteUncounted(id, call, results, stats) ==
    LET sendResults == SettledOf(call.contacts, results)
    IN /\ notificationHistory' = Append(notificationHistory,
              [id |-> id, failed |-> FALSE, error |-> "none",
               message |-> call.message, contacts |-> call.contacts,
               sendResults |-> sendResults, at |-> now])
       /\ statistics' = [stats EXCEPT !.lastNotificationTime = now]
       /\ responses' = MapSet(responses, id, _buildSuccessResponse(id, call, sendResults))
       /\ inFlight' = MapDelete(inFlight, id)

\* _recordNotificationResult and the return of the response
Complete(id, call, results, stats) ==
    LET sendResults == SettledOf(call.contacts, results)
    IN /\ notificationHistory' = Append(notificationHistory,
              [id |-> id, failed |-> FALSE, error |-> "none",
               message |-> call.message, contacts |-> call.contacts,
               sendResults |-> sendResults, at |-> now])
       /\ statistics' = [stats EXCEPT !.totalNotifications = @ + 1,
                                      !.lastNotificationTime = now]
       /\ responses' = MapSet(responses, id, _buildSuccessResponse(id, call, sendResults))
       /\ inFlight' = MapDelete(inFlight, id)

\* what a call of sendEmergencyNotification writes up to
\* `await this._validatePrerequisites()`
StartNotification ==
    /\ lastNotificationId' = lastNotificationId + 1
    /\ inFlight' = MapSet(inFlight, lastNotificationId + 1,
                          [pc |-> "validated", error |-> _validatePrerequisites,
                           message |-> NullMessage, contacts |-> <<>>, results |-> <<>>,
                           dueAt |-> 0, registryAtCall |-> PhonesOf(contactOrder)])
    /\ UNCHANGED <<notificationHistory, sentMessages, statistics, responses>>

sendEmergencyNotification ==
    /\ lastNotificationId < MaxNotifications
    /\ StartNotification
    /\ UNCHANGED <<machineVars, contactVars, locationVars>>

Validated == {id \in DOMAIN inFlight : inFlight[id].pc = "validated"}

Sending == {id \in DOMAIN inFlight : inFlight[id].pc = "sending"}

Oldest(ids) == CHOOSE id \in ids : \A other \in ids : id <= other

\* the continuation after the first await: the catch block when the
\* validation threw, else _buildNotificationData and _sendToAllContacts up
\* to the await of Promise.allSettled
dispatchResume ==
    /\ Validated # {}
    /\ LET id == Oldest(Validated)
           call == inFlight[id]
       IN IF call.error # "none"
          THEN \* _recordFailedNotification; throw error
               /\ notificationHistory' = Append(notificationHistory,
                      [id |-> id, failed |-> TRUE, error |-> call.error,
                       message |-> NullMessage, contacts |-> <<>>,
                       sendResults |-> <<>>, at |-> now])
               /\ responses' = MapSet(responses, id,
                      [success |-> FALSE, error |-> call.error, notificationId |-> id,
                       sentTo |-> 0, successful |-> 0, failed |-> 0,
                       timestamp |-> NullTime, registryAtCall |-> call.registryAtCall])
               /\ inFlight' = MapDelete(inFlight, id)
               /\ UNCHANGED <<statistics, sentMessages>>
          ELSE \E suffix \in RandomSuffixes :
               LET location == getBestAvailableLocation
                   contacts == getEmergencyContacts
                   built == [call EXCEPT
                               !.message = _createEmergencyMessage(location, now, suffix),
                               !.contacts = contacts]
                   \* _sendMessageToContact up to its first await
                   results == [i \in 1..Len(contacts) |->
                                 IF _isInvalidPhoneNumber(contacts[i].phone)
                                 THEN "failed" ELSE "pending"]
                   stats == [statistics EXCEPT
                               !.failedSends = @ + CountOf(results, "failed")]
               IN IF CountOf(results, "pending") = 0
                  THEN /\ Complete(id, built, results, stats)
                       /\ UNCHANGED sentMessages
                  ELSE /\ inFlight' = MapSet(inFlight, id,
                              [built EXCEPT !.pc = "sending", !.results = results,
                                            !.dueAt = now + SEND_DELAY])
                       /\ statistics' = stats
                       /\ UNCHANGED <<notificationHistory, responses, sentMessages>>
    /\ UNCHANGED <<lastNotificationId, machineVars, contactVars, locationVars>>

\* faulty variant: the record carries a message stamped at the send
SentRecordRestamped(id, message) ==
    [message |-> [message EXCEPT !.timestamp = now], sentAt |-> now,
     status |-> "success", notificationId |-> id]

\* { ...message, sentAt: new Date(), status: SUCCESS }; notificationId is an
\* observer field: the dispatch the record comes from
SentRecord(id, message) ==
    [message |-> message, sentAt |-> now, status |-> "success", notificationId |-> id]

\* the setTimeout callback of the oldest pending send, and what follows it
\* in _simulateMessageSending, _sendMessageToContact and, after the last
\* send, in sendEmergencyNotification
\* faulty variant: the dispatch completes with the first send that settles
sendTimerFiredFirstWins ==
    /\ Validated = {}
    /\ Sending # {}
    /\ LET id == Oldest(Sending)
           call == inFlight[id]
           i == CHOOSE k \in 1..Len(call.results) :
                    /\ call.results[k] = "pending"
                    /\ \A j \in 1..(k - 1) : call.results[j] # "pending"
           phone == call.contacts[i].phone
           ok == ~Includes(phone, InvalidMark)
           results == [call.results EXCEPT ![i] = IF ok THEN "success" ELSE "failed"]
           stats == IF ok THEN [statistics EXCEPT !.successfulSends = @ + 1]
                    ELSE [statistics EXCEPT !.failedSends = @ + 1]
       IN /\ now >= call.dueAt
          /\ sentMessages' = IF ok
                THEN MapSet(sentMessages, phone, SentRecord(id, call.message))
                ELSE sentMessages
          /\ Complete(id, call, results, stats)
    /\ UNCHANGED <<lastNotificationId, machineVars, contactVars, locationVars>>

\* the setTimeout callback of one _simulateMessageSending and the rest of that
\* _sendMessageToContact; the last one lets Promise.allSettled resolve
sendTimerFired ==
    /\ Validated = {}
    /\ Sending # {}
    /\ LET id == Oldest(Sending)
           call == inFlight[id]
           i == CHOOSE k \in 1..Len(call.results) :
                    /\ call.results[k] = "pending"
                    /\ \A j \in 1..(k - 1) : call.results[j] # "pending"
           phone == call.contacts[i].phone
           ok == ~Includes(phone, InvalidMark)
           results == [call.results EXCEPT ![i] = IF ok THEN "success" ELSE "failed"]
           stats == IF ok THEN [statistics EXCEPT !.successfulSends = @ + 1]
                    ELSE [statistics EXCEPT !.failedSends = @ + 1]
       IN /\ now >= call.dueAt
          /\ sentMessages' = IF ok
                THEN MapSet(sentMessages, phone, SentRecord(id, call.message))
                ELSE sentMessages
          /\ IF CountOf(results, "pending") = 0
             THEN Complete(id, call, results, stats)
             ELSE /\ inFlight' = MapSet(inFlight, id, [call EXCEPT !.results = results])
                  /\ statistics' = stats
                  /\ UNCHANGED <<notificationHistory, responses>>
    /\ UNCHANGED <<lastNotificationId, machineVars, contactVars, locationVars>>

\* the clock moves on by the delay of a send
sendDelayElapses ==
    /\ now + SEND_DELAY <= MaxDispatchTime
    /\ now' = now + SEND_DELAY
    /\ UNCHANGED <<buttonConfig, emergencyContacts, networkStatus, sosState, uiState,
                   buttonPresses, callbacks, countdownTimer, timers, nextTimerId,
                   triggerCalls, commits, callbackCalls, staleTimers, pressCount,
                   serviceVars>>

DispatchInit ==
    /\ notificationHistory = <<>>
    /\ sentMessages = <<>>
    /\ lastNotificationId = 0
    /\ statistics = [totalNotifications |-> 0, successfulSends |-> 0,
                     failedSends |-> 0, lastNotificationTime |-> NullTime]
    /\ inFlight = <<>>
    /\ responses = <<>>

\* ===== PowerButtonService =====
PRESS_TIMEOUT_MS == 3000
REQUIRED_PRESS_COUNT == 3

\* the pending timers once clearTimeout(handle) has run
ClearedTimeout(pending, handle) == {t \in pending : t.id # handle}

\* faulty variant: a press in the triggered state is counted like any other
triggerPowerButtonUnguarded ==
    /\ powerPresses < MaxPowerPresses
    /\ powerPresses' = powerPresses + 1
    /\ firstPressAt' = IF powerPressCount = 0 THEN now ELSE firstPressAt
    /\ powerPressCount' = powerPressCount + 1
    /\ IF powerPressCount + 1 = REQUIRED_PRESS_COUNT
       THEN /\ powerState' = "triggered"
            /\ pressTimeout' = NullTimer
            /\ powerTimers' = ClearedTimeout(powerTimers, pressTimeout)
            /\ UNCHANGED nextPowerTimerId
            /\ StartNotification
       ELSE /\ powerState' = "counting"
            /\ pressTimeout' = nextPowerTimerId
            /\ powerTimers' = ClearedTimeout(powerTimers, pressTimeout)
                                 \cup {[id |-> nextPowerTimerId, due |-> now + PRESS_TIMEOUT_MS]}
            /\ nextPowerTimerId' = nextPowerTimerId + 1
            /\ UNCHANGED dispatchVars
    /\ UNCHANGED <<timeoutsFired, sosVars, contactVars, locationVars, triggerVars, peripheralVars>>

triggerPowerButton ==
    /\ powerPresses < MaxPowerPresses
    /\ powerPresses' = powerPresses + 1
    /\ IF powerState = "triggered"
       THEN UNCHANGED <<powerState, powerPressCount, pressTimeout, powerTimers,
                        nextPowerTimerId, firstPressAt, dispatchVars>>
       ELSE \* _incrementPressCount, _clearExistingTimeout
            /\ powerPressCount' = powerPressCount + 1
            /\ firstPressAt' = IF powerPressCount = 0 THEN now ELSE firstPressAt
            /\ IF powerPressCount + 1 = REQUIRED_PRESS_COUNT
               THEN \* _triggerEmergency
                    /\ powerState' = "triggered"
                    /\ pressTimeout' = NullTimer
                    /\ powerTimers' = ClearedTimeout(powerTimers, pressTimeout)
                    /\ UNCHANGED nextPowerTimerId
                    /\ StartNotification
               ELSE IF powerPressCount + 1 < REQUIRED_PRESS_COUNT
               THEN \* _startTimeout
                    /\ powerState' = "counting"
                    /\ pressTimeout' = nextPowerTimerId
                    /\ powerTimers' = ClearedTimeout(powerTimers, pressTimeout)
                           \cup {[id |-> nextPowerTimerId, due |-> now + PRESS_TIMEOUT_MS]}
                    /\ nextPowerTimerId' = nextPowerTimerId + 1
                    /\ UNCHANGED dispatchVars
               ELSE /\ powerState' = "counting"
                    /\ pressTimeout' = NullTimer
                    /\ powerTimers' = ClearedTimeout(powerTimers, pressTimeout)
                    /\ UNCHANGED <<nextPowerTimerId, dispatchVars>>
    /\ UNCHANGED <<timeoutsFired, sosVars, contactVars, locationVars, triggerVars, peripheralVars>>

\* faulty variant: the timeout goes back to idle and keeps the count
PressTimeoutKeepingCount(t) ==
    /\ t \in powerTimers
    /\ t.due <= now
    /\ powerState' = "idle"
    /\ pressTimeout' = NullTimer
    /\ powerTimers' = ClearedTimeout(powerTimers \ {t}, pressTimeout)
    /\ timeoutsFired' = timeoutsFired + 1
    /\ UNCHANGED <<powerPressCount, nextPowerTimerId, powerPresses, firstPressAt, sosVars,
                   contactVars, locationVars, dispatchVars, triggerVars, peripheralVars>>

\* the setTimeout callback of _startTimeout: _resetToIdle
PressTimeout(t) ==
    /\ t \in powerTimers
    /\ t.due <= now
    /\ powerPressCount' = 0
    /\ powerState' = "idle"
    /\ pressTimeout' = NullTimer
    /\ powerTimers' = ClearedTimeout(powerTimers \ {t}, pressTimeout)
    /\ timeoutsFired' = timeoutsFired + 1
    /\ UNCHANGED <<nextPowerTimerId, powerPresses, firstPressAt, sosVars,
                   contactVars, locationVars, dispatchVars, triggerVars, peripheralVars>>

pressTimeoutElapsed == \E t \in powerTimers : PressTimeout(t)

\* faulty variant: reset() also cancels the countdown of the primary machine
resetPowerButtonAndCountdown ==
    /\ powerPressCount' = 0
    /\ powerState' = "idle"
    /\ pressTimeout' = NullTimer
    /\ powerTimers' = ClearedTimeout(powerTimers, pressTimeout)
    /\ timers' = {}
    /\ countdownTimer' = NullTimer
    /\ sosState' = [sosState EXCEPT !.initiated = FALSE]
    /\ UNCHANGED <<nextPowerTimerId, powerPresses, firstPressAt, timeoutsFired,
                   now, buttonConfig, emergencyContacts, networkStatus, uiState,
                   buttonPresses, callbacks, nextTimerId, triggerCalls, commits,
                   callbackCalls, staleTimers, pressCount,
                   contactVars, locationVars, dispatchVars, triggerVars, peripheralVars>>

\* faulty variant: reset() forgets the pending timeout
resetPowerButtonKeepingTimeout ==
    /\ powerPressCount' = 0
    /\ powerState' = "idle"
    /\ UNCHANGED <<pressTimeout, powerTimers, nextPowerTimerId, powerPresses, firstPressAt,
                   timeoutsFired, sosVars, contactVars, locationVars, dispatchVars,
                   triggerVars, peripheralVars>>

\* reset(): _resetToIdle
resetPowerButton ==
    /\ powerPressCount' = 0
    /\ powerState' = "idle"
    /\ pressTimeout' = NullTimer
    /\ powerTimers' = ClearedTimeout(powerTimers, pressTimeout)
    /\ UNCHANGED <<nextPowerTimerId, powerPresses, firstPressAt, timeoutsFired, sosVars,
                   contactVars, locationVars, dispatchVars, triggerVars, peripheralVars>>

PowerInit ==
    /\ powerState = "idle"
    /\ powerPressCount = 0
    /\ pressTimeout = NullTimer
    /\ powerTimers = {}
    /\ nextPowerTimerId = 1
    /\ powerPresses = 0
    /\ firstPressAt = NullTime
    /\ timeoutsFired = 0

\* ===== EmergencyConnect.triggerSOS with its return value =====
\* faulty variant: the network flag is looked at before the contacts
TriggerResultNetworkFirst ==
    IF ~networkStatus THEN "NETWORK_DISCONNECTED"
    ELSE IF ~hasContacts(emergencyContacts) THEN "NO_EMERGENCY_CONTACTS"
    ELSE "success"

\* what SOSService.trigger() returns: the message of its failure result,
\* or "success"
TriggerResult ==
    IF ~hasContacts(emergencyContacts) THEN "NO_EMERGENCY_CONTACTS"
    ELSE IF ~networkStatus THEN "NETWORK_DISCONNECTED"
    ELSE "success"

triggerSOSReturning ==
    /\ triggerCalls < MaxTriggers
    /\ Trigger(sosState)
    /\ lastTriggerResult' = TriggerResult
    /\ UNCHANGED <<now, buttonConfig, emergencyContacts, networkStatus, uiState,
                   buttonPresses, callbacks, countdownTimer, timers, nextTimerId,
                   staleTimers, pressCount, contactVars, locationVars, dispatchVars,
                   powerVars, peripheralVars>>

TriggerInit == lastTriggerResult = "none"

\* ===== SMSService =====
\* what the platform does with one contact: the callback of SMS.send, and
\* Linking.canOpenURL / openURL for the sms: link
DirectOutcomes == {"completed", "cancelled", "error"}
DeepLinkOutcomes == {"opened", "cannotOpen", "openRejected"}

NoSmsCall == [op |-> "none", contacts |-> <<>>, direct |-> <<>>, deep |-> <<>>]
SmsThrew(error) == [threw |-> TRUE, error |-> error, results |-> <<>>]
SmsReturned(results) == [threw |-> FALSE, error |-> "none", results |-> results]

\* sendSingleSMS resolves only when the callback reports completed
sendSingleSMS(outcome) == outcome = "completed"

\* one result per contact; a failure inside the loop is caught per contact
sendSMSViaDeepLink(contacts, deep) ==
    IF Len(contacts) = 0
    THEN SmsThrew("noContacts")
    ELSE SmsReturned([i \in 1..Len(contacts) |->
            IF deep[i] = "opened"
            THEN [contact |-> contacts[i].name, phoneNumber |-> contacts[i].phoneNumber,
                  success |-> TRUE, error |-> "none", method |-> "deeplink"]
            ELSE [contact |-> contacts[i].name, phoneNumber |-> contacts[i].phoneNumber,
                  success |-> FALSE, error |-> deep[i], method |-> "none"]])

\* the result pushed for one contact while SMS is available
SingleResult(contact, direct, deep) ==
    IF sendSingleSMS(direct)
    THEN [contact |-> contact.name, phoneNumber |-> contact.phoneNumber,
          success |-> TRUE, error |-> "none", method |-> "none"]
    ELSE IF ~sendSMSViaDeepLink(<<contact>>, <<deep>>).threw
    THEN [contact |-> contact.name, phoneNumber |-> contact.phoneNumber,
          success |-> TRUE, error |-> "none", method |-> "deeplink"]
    ELSE [contact |-> contact.name, phoneNumber |-> contact.phoneNumber,
          success |-> FALSE, error |-> direct, method |-> "none"]

SendEmergencySMSResult(available, contacts, direct, deep) ==
    IF Len(contacts) = 0
    THEN SmsThrew("noContacts")
    ELSE IF ~available
    THEN sendSMSViaDeepLink(contacts, deep)
    ELSE SmsReturned([i \in 1..Len(contacts) |->
                        SingleResult(contacts[i], direct[i], deep[i])])

\* initialize(): SMS.isAvailable() resolved with a value, or rejected
initializeSMS(available) ==
    /\ smsAvailable' = available
    /\ UNCHANGED <<smsCall, smsResults, volumeVars, sosVars, contactVars, locationVars,
                   dispatchVars, powerVars, triggerVars>>

sendEmergencySMS(contacts, direct, deep) ==
    /\ smsCall' = [op |-> "send", contacts |-> contacts, direct |-> direct, deep |-> deep]
    /\ smsResults' = SendEmergencySMSResult(smsAvailable, contacts, direct, deep)
    /\ UNCHANGED <<smsAvailable, volumeVars, sosVars, contactVars, locationVars,
                   dispatchVars, powerVars, triggerVars>>

SmsInit ==
    /\ smsAvailable = FALSE
    /\ smsCall = NoSmsCall
    /\ smsResults = SmsReturned(<<>>)

\* ===== PhysicalButtonService =====
VOLUME_WINDOW == 1000

\* resetPressState()
ResetPressState ==
    /\ pressStartTime' = NullTime
    /\ volumeTimeout' = NullTimer
    /\ volumeTimers' = ClearedTimeout(volumeTimers, volumeTimeout)

\* handleVolumeChange / the volume poll: handlePotentialEmergencyTrigger(), with
\* triggerEmergencyMode() up to its first await
handlePotentialEmergencyTrigger ==
    /\ volumeEvents < MaxVolumeEvents
    /\ volumeEvents' = volumeEvents + 1
    /\ IF pressStartTime = NullTime
       THEN /\ pressStartTime' = now
            /\ volumeTimeout' = nextVolumeTimerId
            /\ volumeTimers' = volumeTimers
                                 \cup {[id |-> nextVolumeTimerId, due |-> now + VOLUME_WINDOW]}
            /\ nextVolumeTimerId' = nextVolumeTimerId + 1
       ELSE UNCHANGED <<pressStartTime, volumeTimeout, volumeTimers, nextVolumeTimerId>>
    /\ IF now - pressStartTime' < VOLUME_WINDOW
       THEN /\ emergencyModeCalls' = emergencyModeCalls + 1
            /\ IF isEmergencyTriggered
               THEN UNCHANGED <<isEmergencyTriggered, emergencyModeWaiting, handlingsStarted>>
               ELSE /\ isEmergencyTriggered' = TRUE
                    /\ emergencyModeWaiting' = TRUE
                    /\ handlingsStarted' = handlingsStarted + 1
       ELSE UNCHANGED <<emergencyModeCalls, isEmergencyTriggered, emergencyModeWaiting,
                        handlingsStarted>>
    /\ UNCHANGED <<alertOpen, smsVars, sosVars, contactVars, locationVars, dispatchVars,
                   powerVars, triggerVars>>

\* triggerEmergencyMode() after AsyncStorage.getItem: no contacts stored, or
\* the alert is shown and the press state reset
emergencyModeResume(stored) ==
    /\ emergencyModeWaiting
    /\ emergencyModeWaiting' = FALSE
    /\ IF ~stored
       THEN /\ isEmergencyTriggered' = FALSE
            /\ UNCHANGED <<alertOpen, pressStartTime, volumeTimeout, volumeTimers>>
       ELSE /\ alertOpen' = TRUE
            /\ ResetPressState
            /\ UNCHANGED isEmergencyTriggered
    /\ UNCHANGED <<nextVolumeTimerId, volumeEvents, emergencyModeCalls, handlingsStarted,
                   smsVars, sosVars, contactVars, locationVars, dispatchVars, powerVars,
                   triggerVars>>

\* the user presses the alert's button: onPress
alertConfirmed ==
    /\ alertOpen
    /\ alertOpen' = FALSE
    /\ isEmergencyTriggered' = FALSE
    /\ UNCHANGED <<pressStartTime, volumeTimeout, volumeTimers, nextVolumeTimerId,
                   emergencyModeWaiting, volumeEvents, emergencyModeCalls, handlingsStarted,
                   smsVars, sosVars, contactVars, locationVars, dispatchVars, powerVars,
                   triggerVars>>

\* the setTimeout callback of handlePotentialEmergencyTrigger
VolumeTimeout(t) ==
    /\ t \in volumeTimers
    /\ t.due <= now
    /\ pressStartTime' = NullTime
    /\ volumeTimeout' = NullTimer
    /\ volumeTimers' = ClearedTimeout(volumeTimers \ {t}, volumeTimeout)
    /\ UNCHANGED <<nextVolumeTimerId, isEmergencyTriggered, emergencyModeWaiting, alertOpen,
                   volumeEvents, emergencyModeCalls, handlingsStarted,
                   smsVars, sosVars, contactVars, locationVars, dispatchVars, powerVars,
                   triggerVars>>

volumeTimeoutElapsed == \E t \in volumeTimers : VolumeTimeout(t)

VolumeInit ==
    /\ pressStartTime = NullTime
    /\ volumeTimeout = NullTimer
    /\ volumeTimers = {}
    /\ nextVolumeTimerId = 1
    /\ isEmergencyTriggered = FALSE
    /\ emergencyModeWaiting = FALSE
    /\ alertOpen = FALSE
    /\ volumeEvents = 0
    /\ emergencyModeCalls = 0
    /\ handlingsStarted = 0

\* everything the constructor sets except the config and the contact list
SosInitRest ==
    /\ now = 0
    /\ networkStatus = TRUE
    /\ sosState = createInitialSOSState
    /\ uiState = createInitialUIState
    /\ buttonPresses = <<>>
    /\ callbacks = [onSOSTriggered |-> FALSE, onLocationUpdate |-> FALSE,
                    onContactNotified |-> FALSE]
    /\ countdownTimer = NullTimer
    /\ timers = {}
    /\ nextTimerId = 1
    /\ triggerCalls = 0
    /\ commits = 0
    /\ callbackCalls = 0
    /\ staleTimers = {}
    /\ pressCount = 0

ContactInit ==
    /\ contactsByPhone = <<>>
    /\ contactOrder = <<>>
    /\ lastError = "none"
    /\ rawPhones = <<>>
    /\ lastCall = NoCall

Init ==
    /\ buttonConfig = NullConfig
    /\ emergencyContacts = <<>>
    /\ SosInitRest
    /\ ContactInit
    /\ LocationInit
    /\ DispatchInit
    /\ PowerInit
    /\ TriggerInit
    /\ SmsInit
    /\ VolumeInit

\* the countdown machine driven through the public API
Next ==
    \/ \E contact \in CoreContactInputs : addContact(contact)
    \/ clearAll
    \/ \E status \in BOOLEAN : setNetworkStatus(status)
    \/ \E registered \in BOOLEAN : setCallback(registered)
    \/ initiateSOS
    \/ cancelSOS
    \/ triggerSOS
    \/ countdownElapsed
    \/ \E d \in CountdownDelays : advanceTime(d)
    \/ advanceToDue

Spec == Init /\ [][Next]_vars

\* the press recognizer in front of the countdown machine: every countdown
\* is started by a press
RecognizerNext ==
    \/ \E config \in ConfigInputs : setButtonConfig(config)
    \/ \E button \in PressInputs : handleVolumeButtonPress(button)
    \/ cancelSOS
    \/ countdownElapsed
    \/ \E d \in Delays : advanceTime(d)
    \/ advanceToDue

RecognizerSpec == Init /\ [][RecognizerNext]_vars

\* the press history over a span longer than its retention window
RetentionDelays == {3000, 5000}

RetentionNext ==
    \/ \E config \in ConfigInputs : setButtonConfig(config)
    \/ \E button \in PressInputs : handleVolumeButtonPress(button)
    \/ cancelSOS
    \/ countdownElapsed
    \/ \E d \in RetentionDelays : advanceRetention(d)

RetentionSpec == Init /\ [][RetentionNext]_vars

\* SMSService called with every platform behaviour
SmsContactA == [name |-> "A", phoneNumber |-> Phone1]
SmsContactB == [name |-> "B", phoneNumber |-> PhoneShort]
SmsLists == {<<>>, <<SmsContactA>>, <<SmsContactA, SmsContactB>>}

SmsNext ==
    \/ \E available \in BOOLEAN : initializeSMS(available)
    \/ \E contacts \in SmsLists :
          \E direct \in [1..Len(contacts) -> DirectOutcomes] :
            \E deep \in [1..Len(contacts) -> DeepLinkOutcomes] :
              sendEmergencySMS(contacts, direct, deep)

SmsSpec == Init /\ [][SmsNext]_vars

\* PhysicalButtonService under volume events half a window apart
VolumeDelays == {500}

VolumeNext ==
    \/ handlePotentialEmergencyTrigger
    \/ \E stored \in BOOLEAN : emergencyModeResume(stored)
    \/ alertConfirmed
    \/ volumeTimeoutElapsed
    \/ \E d \in VolumeDelays : advanceTime(d)

VolumeSpec == Init /\ [][VolumeNext]_vars

\* the end-to-end scenario: config {volumeUp, triplePress} set and a contact
\* registered, presses 400 ms apart, nobody cancels
E2EConfig == [button |-> "volumeUp", action |-> "triplePress"]

E2EInit ==
    /\ buttonConfig = E2EConfig
    /\ emergencyContacts = <<[id |-> "1", name |-> "A", phone |-> Phone1]>>
    /\ SosInitRest
    /\ ContactInit
    /\ LocationInit
    /\ DispatchInit
    /\ PowerInit
    /\ TriggerInit
    /\ SmsInit
    /\ VolumeInit

E2ENext ==
    \/ \E button \in PressInputs : handleVolumeButtonPress(button)
    \/ countdownElapsed
    \/ \E d \in E2EDelays : advanceTime(d)
    \/ advanceToDue

E2ESpec == E2EInit /\ [][E2ENext]_vars

\* the contact registry filled by addEmergencyContact calls only
AddNext == \E contact \in ContactInputs : addWithinOrder(contact)

AddSpec == Init /\ [][AddNext]_vars

\* the contact registry under all its mutating operations
ContactNext ==
    \/ \E contacts \in ListInputs : setEmergencyContacts(contacts)
    \/ \E contact \in ContactInputs : addWithinOrder(contact)
    \/ \E phone \in PhoneInputs : removeEmergencyContact(phone)

ContactSpec == Init /\ [][ContactNext]_vars

\* the registry around its capacity: lists of 9 to MaxListLen contacts with
\* pairwise different numbers, written without or with hyphens
DigitChars == <<"0", "1", "2", "3", "4", "5", "6", "7", "8", "9">>

PlainPhone(k) ==
    <<"0", "9", "0", "0", "0", "0", "0", "0", "0",
      DigitChars[(k \div 10) + 1], DigitChars[(k % 10) + 1]>>

HyphenPhone(k) ==
    <<"0", "9", "0", "-", "0", "0", "0", "0", "-", "0", "0",
      DigitChars[(k \div 10) + 1], DigitChars[(k % 10) + 1]>>

ContactOf(phone) == [name |-> "Taro", phone |-> phone, priority |-> ""]

PlainList(n) == [i \in 1..n |-> ContactOf(PlainPhone(i))]

HyphenList(n) == [i \in 1..n |-> ContactOf(HyphenPhone(i))]

CapacityLists ==
    {PlainList(n) : n \in (MAX_CONTACTS - 1)..MaxListLen}
    \cup {HyphenList(MAX_CONTACTS)}

CapacityContacts ==
    {ContactOf(ph) : ph \in {PlainPhone(2), PlainPhone(20), HyphenPhone(21), PhoneBad}}

CapacityPhones == {PlainPhone(1), HyphenPhone(1), PlainPhone(10)}

\* addEmergencyContact while the list has at most MaxListLen entries
addAtCapacity(contact) ==
    /\ Len(contactOrder) <= MaxListLen
    /\ addEmergencyContact(contact)

CapacityNext ==
    \/ \E contacts \in CapacityLists : setEmergencyContacts(contacts)
    \/ \E contact \in CapacityContacts : addAtCapacity(contact)
    \/ \E phone \in CapacityPhones : removeEmergencyContact(phone)

CapacitySpec == Init /\ [][CapacityNext]_vars

\* the location cache under its operations
LocationNext ==
    \/ \E location \in LocationInputs : setCurrentLocation(location)
    \/ \E location \in LocationInputs : setLastKnownLocation(location)
    \/ \E unavailable \in FlagInputs : setLocationUnavailable(unavailable)
    \/ resetLocation

LocationSpec == Init /\ [][LocationNext]_vars

\* the dispatcher with the services it reads
PhoneMarked == <<"0", "9", "0", "-", "I", "N", "V", "A", "L", "I", "D">>

ExampleContacts == <<ContactOf(PhoneA), ContactOf(PhoneMarked), ContactOf(PhoneB)>>

DispatchLists ==
    {<<>>, <<ContactOf(PhoneA)>>, <<ContactOf(PhoneMarked)>>, ExampleContacts}

DispatchLocations == {LocationOf(JsNumber(35), JsNumber(139))}

DispatchNext ==
    \/ \E contacts \in DispatchLists : setEmergencyContacts(contacts)
    \/ \E location \in DispatchLocations : setCurrentLocation(location)
    \/ sendEmergencyNotification
    \/ dispatchResume
    \/ sendTimerFired
    \/ sendDelayElapses

DispatchSpec == Init /\ [][DispatchNext]_vars

\* the power-button machine with the dispatcher it calls
PowerDelays == {1000}

PowerNext ==
    \/ triggerPowerButton
    \/ pressTimeoutElapsed
    \/ resetPowerButton
    \/ dispatchResume
    \/ \E d \in PowerDelays : advanceTime(d)
    \/ advanceToDue

PowerSpec == Init /\ [][PowerNext]_vars

\* SOSService.trigger() called through the public API, its preconditions
\* set and unset around it
TriggerNext ==
    \/ \E contact \in CoreContactInputs : addContact(contact)
    \/ clearAll
    \/ \E status \in BOOLEAN : setNetworkStatus(status)
    \/ \E registered \in BOOLEAN : setCallback(registered)
    \/ triggerSOSReturning
    \/ \E d \in CountdownDelays : advanceTime(d)

TriggerSpec == Init /\ [][TriggerNext]_vars

\* both press machines side by side, the clock moving from timer to timer;
\* the volume presses are those of the configured button
InteractionPresses == {E2EConfig.button}

InteractionNext ==
    \/ initiateSOS
    \/ cancelSOS
    \/ triggerSOS
    \/ \E button \in InteractionPresses : handleVolumeButtonPress(button)
    \/ countdownElapsed
    \/ triggerPowerButton
    \/ pressTimeoutElapsed
    \/ resetPowerButton
    \/ advanceToDue

InteractionSpec == E2EInit /\ [][InteractionNext]_vars

\* ===== steps of the countdown machine, as seen between two states =====
\* cancel() cleared the stored handle
CancelStep == countdownTimer # NullTimer /\ countdownTimer' = NullTimer

\* a setTimeout callback ran: its timer left the table, the handle stayed
FireStep == timers' # timers /\ timers' \subseteq timers /\ countdownTimer' = countdownTimer

\* initiateSOS() ran: setTimeout handed out a new handle
InitiateStep == nextTimerId' = nextTimerId + 1

\* handleVolumeButtonPress() ran
PressStep == pressCount' = pressCount + 1

\* the only countdown pending is the one whose handle is stored
SoleCountdown ==
    /\ Cardinality(timers) = 1
    /\ \A t \in timers : t.id = countdownTimer

\* C1: when cancelSOS() runs while the single countdown started from idle is
\* still pending, the delayed action is removed for good (a removed timer
\* never returns), no commit is made, sent keeps its value (false) and
\* initiated returns to false.
C1_CancelBeforeFire ==
    [][/\ (CancelStep /\ SoleCountdown) =>
            /\ timers' = {}
            /\ triggerCalls' = triggerCalls
            /\ sosState'.sent = sosState.sent
            /\ ~sosState'.initiated
       /\ \A t \in timers' : t \in timers \/ t.id = nextTimerId]_vars

C1_Witness ==
    /\ nextTimerId = 2
    /\ countdownTimer = NullTimer
    /\ timers = {}
    /\ now >= COUNTDOWN_DURATION
    /\ triggerCalls = 0
    /\ ~sosState.initiated
    /\ ~sosState.sent

\* C2: when the timer of the single countdown started from idle fires with
\* no cancel in between, at least one contact and the network available, the
\* commit is invoked exactly once, sent becomes true and nothing stays
\* pending; the timer fires no earlier than 3000 ms after initiateSOS(), and
\* initiateSOS() itself only schedules: it makes no commit.
C2_FireCommitsOnce ==
    [][/\ (FireStep /\ SoleCountdown /\ sosState.initiated
           /\ hasContacts(emergencyContacts) /\ networkStatus) =>
            /\ triggerCalls' = triggerCalls + 1
            /\ commits' = commits + 1
            /\ sosState'.sent
            /\ timers' = {}
       /\ InitiateStep =>
            /\ triggerCalls' = triggerCalls
            /\ commits' = commits
            /\ sosState'.sent = sosState.sent
            /\ [id |-> nextTimerId, due |-> now + COUNTDOWN_DURATION] \in timers'
       /\ FireStep => \A t \in timers \ timers' : now >= t.due]_vars

C2_Witness ==
    /\ nextTimerId = 2
    /\ countdownTimer = 1
    /\ timers = {}
    /\ triggerCalls = 1
    /\ commits = 1
    /\ sosState.sent
    /\ sosState.timestamp = COUNTDOWN_DURATION

\* C3: in every reachable state at most one countdown timer is pending.
C3_AtMostOneTimer == Cardinality(timers) <= 1

\* C4: a delayed action that was pending when cancelSOS() ran never performs
\* a commit afterwards.
C4_StaleTimerNeverCommits ==
    [][(FireStep /\ commits' # commits) =>
            \A t \in timers \ timers' : t.id \notin staleTimers]_vars

\* C5: once sent is true, cancelSOS() leaves the whole sosState as it was.
C5_CancelAfterSentIsNoOp ==
    [][(CancelStep /\ sosState.sent) => sosState' = sosState]_vars

\* C6: a call of the commit sets sent and records the timestamp (and invokes
\* a registered onSOSTriggered once) exactly when the registry has a contact
\* and the network flag is true at that moment; otherwise sent, timestamp and
\* the callback count stay as they were.  Nothing but the commit writes them.
C6_CommitOnlyWithPreconditions ==
    [][/\ (triggerCalls' # triggerCalls) =>
            IF Len(emergencyContacts) >= 1 /\ networkStatus = TRUE
            THEN /\ sosState'.sent
                 /\ sosState'.timestamp = now
                 /\ commits' = commits + 1
                 /\ callbackCalls' = callbackCalls
                        + (IF callbacks.onSOSTriggered THEN 1 ELSE 0)
            ELSE /\ sosState'.sent = sosState.sent
                 /\ sosState'.timestamp = sosState.timestamp
                 /\ commits' = commits
                 /\ callbackCalls' = callbackCalls
       /\ (\/ sosState'.sent # sosState.sent
           \/ sosState'.timestamp # sosState.timestamp
           \/ callbackCalls' # callbackCalls) =>
            /\ triggerCalls' # triggerCalls
            /\ Len(emergencyContacts) >= 1
            /\ networkStatus = TRUE]_vars

C6_Witness ==
    /\ triggerCalls = 2
    /\ commits = 1
    /\ callbackCalls = 1
    /\ sosState.sent
    /\ ~networkStatus
    /\ emergencyContacts = <<>>

\* C7: with config {volumeUp, triplePress}, a contact registered and the
\* network available, three volumeUp presses at t = 0, 400 and 800 ms and no
\* cancel lead, once every countdown has elapsed, to sent = true and to
\* exactly one commit.
E2EPresses ==
    <<[button |-> "volumeUp", timestamp |-> 0],
      [button |-> "volumeUp", timestamp |-> 400],
      [button |-> "volumeUp", timestamp |-> 800]>>

C7_ThreePressesOneCommit ==
    (/\ buttonConfig = E2EConfig
     /\ buttonPresses = E2EPresses
     /\ pressCount = 3
     /\ timers = {}) => (sosState.sent /\ commits = 1)

\* C8: a press whose retained sequence ends with the configured button is a
\* false positive, and starts no countdown, exactly when some gap between
\* consecutive retained presses is >= 5000 ms; otherwise (fewer than two
\* presses included) it is valid and the countdown is initiated.
SomeGapAtLeast(presses, limit) ==
    \E i \in 2..Len(presses) :
        presses[i].timestamp - presses[i - 1].timestamp >= limit

C8_FalsePositiveIffLongGap ==
    [][(/\ PressStep
        /\ buttonConfig # NullConfig
        /\ buttonPresses'[Len(buttonPresses')].button = buttonConfig.button) =>
            LET v == validateButtonSequence(buttonConfig, buttonPresses')
                irregular == SomeGapAtLeast(buttonPresses', 5000)
            IN /\ v.isFalsePositive = irregular
               /\ v.isValidSOS = ~irregular
               /\ InitiateStep = ~irregular]_vars

C8_Witness ==
    /\ buttonConfig # NullConfig
    /\ buttonPresses = <<[button |-> "volumeUp", timestamp |-> 0],
                         [button |-> "volumeUp", timestamp |-> 5000]>>
    /\ pressCount = 2
    /\ nextTimerId = 2
    /\ countdownTimer = 1

\* C9: a press made while no config is set, or whose button differs from the
\* configured one, starts no countdown and leaves sosState, uiState and the
\* timers as they were; only the press history changes.
C9_InconclusivePressChangesNothing ==
    [][(/\ PressStep
        /\ \/ buttonConfig = NullConfig
           \/ buttonPresses'[Len(buttonPresses')].button # buttonConfig.button) =>
            /\ UNCHANGED <<sosState, uiState, timers, countdownTimer, nextTimerId>>
            /\ buttonPresses' # buttonPresses]_vars

C9_Witness ==
    /\ buttonConfig # NullConfig
    /\ pressCount = 2
    /\ Len(buttonPresses) = 2
    /\ buttonPresses[1].button = "volumeUp"
    /\ buttonPresses[2].button = "volumeDown"
    /\ nextTimerId = 1
    /\ sosState = createInitialSOSState
    /\ uiState = createInitialUIState

\* C10: the registry never holds two contacts with the same normalized phone.
C10_NoDuplicatePhone ==
    \A i, j \in 1..Len(contactOrder) :
        i # j => contactOrder[i].phone # contactOrder[j].phone

\* ===== steps of the contact registry, told by the call observer =====
SetStep == lastCall'.op = "set"

AddStep == lastCall'.op = "add"

RemoveStep == lastCall'.op = "remove"

RegistryUnchanged == UNCHANGED <<contactsByPhone, contactOrder>>

\* a contact passed in with this phone is held by the registry
RegisteredWith(phone) == \E i \in 1..Len(rawPhones) : rawPhones[i] = phone

\* some contact of the registry has this number
HoldsNumber(phone) ==
    \E i \in 1..Len(contactOrder) :
        contactOrder[i].phone = _normalizePhoneNumber(phone)

\* C11: after any sequence of setEmergencyContacts, addEmergencyContact and
\* removeEmergencyContact calls the list holds at most 10 entries, and an
\* addEmergencyContact on a registry already holding 10 contacts fails with
\* the capacity error and adds nothing.
C11_AtMostTenContacts ==
    [][/\ Len(getEmergencyContacts') <= MAX_CONTACTS
       /\ (AddStep /\ Len(contactOrder) = MAX_CONTACTS
              /\ _validateContactFormat(lastCall'.contacts[1]) = "none")
           => (lastError' = "MAX_CONTACTS_EXCEEDED" /\ RegistryUnchanged)]_vars

\* C12: on a full registry (10 contacts) where an add has just failed with
\* the capacity error, removing a contact by the phone it was registered
\* with frees a slot, and the add of a new valid contact then succeeds and
\* leaves exactly 10 contacts.
C12_RemoveFreesSlot ==
    [][/\ (/\ RemoveStep
           /\ Len(contactOrder) = MAX_CONTACTS
           /\ lastCall.op = "add" /\ lastError = "MAX_CONTACTS_EXCEEDED"
           /\ RegisteredWith(lastCall'.phone))
          => (lastCall'.returned /\ Len(contactOrder') = MAX_CONTACTS - 1)
       /\ (/\ AddStep
           /\ lastCall.op = "remove" /\ lastCall.returned
           /\ Len(contactOrder) = MAX_CONTACTS - 1
           /\ _validateContactFormat(lastCall'.contacts[1]) = "none"
           /\ ~HoldsNumber(lastCall'.contacts[1].phone))
          => (lastError' = "none" /\ Len(contactOrder') = MAX_CONTACTS)]_vars

\* the normalized phones of the entries of a list whose phone is valid
ValidPhonesOf(contacts) ==
    LET Valid(contact) == contact.phone # Undefined /\ _isValidPhoneNumber(contact.phone)
        kept == SelectSeq(contacts, Valid)
    IN [i \in 1..Len(kept) |-> _normalizePhoneNumber(kept[i].phone)]

\* C13: after setEmergencyContacts(list) the registry holds exactly the
\* entries of the list whose phone is a valid number, normalized and in the
\* order of the list; an entry with an invalid phone is not kept.
C13_SetKeepsOnlyValid ==
    lastCall.op = "set" =>
        [i \in 1..Len(contactOrder) |-> contactOrder[i].phone]
            = ValidPhonesOf(lastCall.contacts)

\* C14: addEmergencyContact fails with a distinct error for an invalid
\* format, for a registry at its limit and for a phone already present, and
\* in each of these cases the registry is exactly as it was before the call.
C14_AddFailsDistinctly ==
    [][AddStep =>
        LET contact == lastCall'.contacts[1]
            invalid == _validateContactFormat(contact) # "none"
            full == Len(contactOrder) >= MAX_CONTACTS
            present == HoldsNumber(contact.phone)
        IN /\ invalid => (lastError' \in {"CONTACT_REQUIRED", "INVALID_PHONE_FORMAT"}
                           /\ RegistryUnchanged)
           /\ (~invalid /\ full /\ ~present)
                 => (lastError' = "MAX_CONTACTS_EXCEEDED" /\ RegistryUnchanged)
           /\ (~invalid /\ present /\ ~full)
                 => (lastError' = "DUPLICATE_PHONE" /\ RegistryUnchanged)
           /\ (~invalid /\ present /\ full)
                 => (lastError' \in {"MAX_CONTACTS_EXCEEDED", "DUPLICATE_PHONE"}
                     /\ RegistryUnchanged)]_vars

\* C15: removeEmergencyContact(phone) returns true exactly when a contact
\* registered with that phone is in the registry, and that contact is then
\* gone from the lookup and from the list; otherwise it returns false and
\* the registry is unchanged.
C15_RemoveReturnsPresence ==
    [][RemoveStep =>
        LET phone == lastCall'.phone
        IN IF RegisteredWith(phone)
           THEN /\ lastCall'.returned
                /\ ~MapHas(contactsByPhone', phone)
                /\ \A i \in 1..Len(rawPhones') : rawPhones'[i] # phone
           ELSE /\ ~lastCall'.returned
                /\ RegistryUnchanged]_vars

\* ===== the location cache =====
InBounds(location) ==
    /\ location.kind = "object"
    /\ location.latitude.type = "number" /\ location.longitude.type = "number"
    /\ location.latitude.value \in -90..90
    /\ location.longitude.value \in -180..180

\* C16: getBestAvailableLocation returns the current location when one is
\* stored and the unavailable flag is false; otherwise lastKnown, unchanged,
\* when lastKnown holds a valid location; otherwise nothing.
C16_BestAvailableFallsBack ==
    getBestAvailableLocation =
        IF currentLocation # NullLocation /\ ~isLocationUnavailable THEN currentLocation
        ELSE IF InBounds(lastKnownLocation) THEN lastKnownLocation
        ELSE NullLocation

C16_Witness ==
    /\ isLocationUnavailable
    /\ currentLocation # NullLocation
    /\ lastKnownLocation # NullLocation
    /\ lastKnownLocation # currentLocation
    /\ getBestAvailableLocation = lastKnownLocation

\* C17: every location held in the current or lastKnown slot has latitude
\* in [-90, 90] and longitude in [-180, 180]; a call with an out-of-bounds
\* or malformed location never throws and never stores that location.
C17_StoredLocationsInBounds ==
    /\ currentLocation # NullLocation => InBounds(currentLocation)
    /\ lastKnownLocation # NullLocation => InBounds(lastKnownLocation)
    /\ ~lastLocationCall.threw

C17_Witness ==
    /\ lastLocationCall.op = "setCurrentLocation"
    /\ lastLocationCall.location.kind = "object"
    /\ ~InBounds(lastLocationCall.location)
    /\ currentLocation = NullLocation
    /\ lastKnownLocation # NullLocation

\* C18: lastKnown equals the most recent valid location passed to
\* setCurrentLocation or setLastKnownLocation; a later invalid or empty
\* input does not erase or change it.
C18_LastKnownIsLastValid == lastKnownLocation = lastValidLocation

\* C19: while the unavailable flag is true getCurrentLocation returns
\* nothing whatever is stored; setLocationUnavailable changes only the
\* flag, so with the flag back to false getCurrentLocation returns the
\* stored current location again.
C19_FlagOnlyHidesCurrent ==
    [][/\ isLocationUnavailable' => getCurrentLocation' = NullLocation
       /\ lastLocationCall'.op = "setLocationUnavailable"
            => /\ UNCHANGED <<currentLocation, lastKnownLocation>>
               /\ ~isLocationUnavailable' => getCurrentLocation' = currentLocation]_vars

C19_Witness ==
    /\ lastLocationCall.op = "setLocationUnavailable"
    /\ isLocationUnavailable
    /\ currentLocation # NullLocation
    /\ getCurrentLocation = NullLocation

\* ===== the dispatcher =====
\* the history entry a finished dispatch recorded
EntryOf(id) ==
    notificationHistory[CHOOSE k \in 1..Len(notificationHistory) :
                            notificationHistory[k].id = id]

SendsWith(id, result) ==
    Cardinality({i \in 1..Len(EntryOf(id).sendResults) :
                    EntryOf(id).sendResults[i].value.result = result})

\* C20: every dispatch that passes its preconditions returns an aggregate
\* with total = number of registered contacts, successful = number of
\* contacts whose send succeeded, failed = number of contacts whose send
\* failed, successful + failed = total; contacts [A valid, B marked invalid,
\* C valid] give total 3, successful 2, failed 1.
C20_AggregateCounts ==
    \A id \in DOMAIN responses :
        LET response == responses[id]
        IN /\ response.success =>
                /\ response.sentTo = Len(EntryOf(id).contacts)
                /\ response.successful = SendsWith(id, "success")
                /\ response.failed = SendsWith(id, "failed")
                /\ response.successful + response.failed = response.sentTo
           /\ response.registryAtCall = PhonesOf(AddEach(<<<<>>, <<>>>>, ExampleContacts)[2])
                => /\ response.success
                   /\ response.sentTo = 3
                   /\ response.successful = 2
                   /\ response.failed = 1

\* some / every phone of a list carries the invalid mark
Marked(phone) == Includes(phone, InvalidMark)

\* C21: a per-contact failure never aborts or blocks sibling attempts: when
\* the registered list holds an entry marked invalid among valid ones,
\* sendEmergencyNotification attempts every contact, every valid contact
\* ends with a recorded sent message and the invalid one has none.
C21_SiblingsStillAttempted ==
    \A id \in DOMAIN responses :
        LET registry == responses[id].registryAtCall
        IN (/\ \E i \in 1..Len(registry) : Marked(registry[i])
            /\ \E i \in 1..Len(registry) : ~Marked(registry[i]))
           => /\ Len(EntryOf(id).sendResults) = Len(registry)
              /\ \A i \in 1..Len(registry) :
                    MapHas(sentMessages, registry[i]) <=> ~Marked(registry[i])

\* the dispatches that returned or threw in this step
Finished == {id \in DOMAIN responses' : id \notin DOMAIN responses}

\* C22: sendEmergencyNotification with zero registered contacts fails with
\* the no-contacts error and has no dispatch side effects: no message is
\* built, no send is attempted, no sent message is recorded and the
\* statistics are unchanged.
C22_NoContactsNoSideEffects ==
    [][/\ \A id \in Finished :
            responses'[id].registryAtCall = <<>>
            => /\ ~responses'[id].success
               /\ responses'[id].error = "NO_CONTACTS"
               /\ inFlight[id].message = NullMessage
               /\ inFlight[id].results = <<>>
               /\ UNCHANGED <<statistics, sentMessages>>
       /\ \A id \in DOMAIN inFlight' :
            (id \notin DOMAIN inFlight /\ inFlight'[id].registryAtCall = <<>>)
            => /\ inFlight'[id].error = "NO_CONTACTS"
               /\ UNCHANGED <<statistics, sentMessages, notificationHistory>>]_vars

C22_Witness ==
    \E id \in DOMAIN responses :
        /\ responses[id].registryAtCall = <<>>
        /\ ~responses[id].success
        /\ contactOrder # <<>>

\* C23: with a non-empty registry a dispatch never fails at call level
\* because of per-contact outcomes: when every per-contact send fails it
\* still returns success: true with successful = 0 and failed = total.
C23_AllFailedStillSuccess ==
    \A id \in DOMAIN responses :
        LET response == responses[id]
        IN /\ response.registryAtCall # <<>> => response.success
           /\ (response.success /\ response.sentTo > 0
                 /\ SendsWith(id, "failed") = response.sentTo)
              => (response.successful = 0 /\ response.failed = response.sentTo)

\* the message of a dispatch: held by the call while it runs, by its
\* history entry afterwards
MessageIn(calls, history, id) ==
    IF id \in DOMAIN calls THEN calls[id].message
    ELSE history[CHOOSE k \in 1..Len(history) : history[k].id = id].message

\* the message of a dispatch after the step
MessageAfter(id) == MessageIn(inFlight', notificationHistory', id)

\* C24: within one dispatch exactly one message is built, it is never
\* modified afterwards, and every contact with a recorded sent message
\* from that dispatch has the same content, location, timestamp and
\* messageId as every other contact of that dispatch.
C24_OneMessagePerDispatch ==
    [][/\ \A id \in Sending : MessageAfter(id) = inFlight[id].message
       /\ \A phone \in DOMAIN sentMessages' :
            sentMessages'[phone].message
                = MessageAfter(sentMessages'[phone].notificationId)]_vars

C24_Witness ==
    \E p, q \in DOMAIN sentMessages :
        /\ p # q
        /\ sentMessages[p].notificationId = sentMessages[q].notificationId
        /\ sentMessages[p].sentAt > sentMessages[p].message.timestamp
        /\ sentMessages[p].message = sentMessages[q].message

\* the call whose continuation runs next builds its message in this step
Builds(id) ==
    /\ Validated # {}
    /\ id = Oldest(Validated)
    /\ inFlight[id].error = "none"
    /\ id \notin Validated'

\* C25: the message of a dispatch carries the value getBestAvailableLocation
\* had when the message was built and the timestamp of that moment; a
\* missing location never makes the dispatch fail, it only leaves the
\* location field empty.
C25_MessageCarriesLocation ==
    [][\A id \in DOMAIN inFlight :
          Builds(id)
          => /\ MessageAfter(id).location = getBestAvailableLocation
             /\ MessageAfter(id).timestamp = now
             /\ id \in DOMAIN responses' => responses'[id].success]_vars

C25_Witness ==
    \E i, j \in 1..Len(notificationHistory) :
        /\ ~notificationHistory[i].failed
        /\ notificationHistory[i].message.location = NullLocation
        /\ ~notificationHistory[j].failed
        /\ notificationHistory[j].message.location # NullLocation

\* C26: a press that brings the count to three moves the power-button machine
\* to TRIGGERED and starts exactly one dispatch; a press while TRIGGERED changes
\* nothing of the machine and starts no dispatch; no other press dispatches.
PowerPressStep == powerPresses' = powerPresses + 1

C26_ThirdPressDispatchesOnce ==
    [][PowerPressStep =>
         /\ powerState = "triggered" =>
               /\ UNCHANGED <<powerState, powerPressCount, pressTimeout, powerTimers>>
               /\ UNCHANGED <<lastNotificationId, inFlight>>
         /\ (powerState # "triggered" /\ powerPressCount = REQUIRED_PRESS_COUNT - 1) =>
               /\ powerState' = "triggered"
               /\ powerTimers' = {}
               /\ lastNotificationId' = lastNotificationId + 1
               /\ DOMAIN inFlight' = DOMAIN inFlight \cup {lastNotificationId + 1}
         /\ (powerState # "triggered" /\ powerPressCount < REQUIRED_PRESS_COUNT - 1) =>
               UNCHANGED <<lastNotificationId, inFlight>>]_vars

C26_Witness ==
    /\ powerState = "triggered"
    /\ powerPresses = REQUIRED_PRESS_COUNT + 1
    /\ nextPowerTimerId = REQUIRED_PRESS_COUNT
    /\ timeoutsFired = 0
    /\ lastNotificationId = 1

\* C27: a press that leaves the count below three leaves exactly one pending
\* timeout, due 3000 ms later; when a timeout runs the machine is IDLE with
\* count 0 and nothing pending; a dispatch starts only on a press that makes
\* the count three, so never with fewer than three presses.
TimeoutStep == timeoutsFired' = timeoutsFired + 1

C27_TimeoutResetsCount ==
    [][/\ (PowerPressStep /\ powerState # "triggered"
            /\ powerPressCount + 1 < REQUIRED_PRESS_COUNT) =>
              /\ powerTimers' = {[id |-> pressTimeout', due |-> now + PRESS_TIMEOUT_MS]}
              /\ pressTimeout' \notin {t.id : t \in powerTimers}
              /\ powerPressCount' = powerPressCount + 1
       /\ TimeoutStep =>
              /\ powerState' = "idle"
              /\ powerPressCount' = 0
              /\ powerTimers' = {}
              /\ UNCHANGED <<lastNotificationId, inFlight>>
       /\ lastNotificationId' # lastNotificationId =>
              /\ PowerPressStep
              /\ powerPressCount' = REQUIRED_PRESS_COUNT
              /\ powerPresses' >= REQUIRED_PRESS_COUNT]_vars

\* three presses with a long gap before the third: nothing was sent
C27_Witness ==
    /\ powerPresses = REQUIRED_PRESS_COUNT
    /\ timeoutsFired = 1
    /\ powerState = "counting"
    /\ powerPressCount = 1
    /\ lastNotificationId = 0

\* C28: the machine reaches TRIGGERED only by a third press made no later than
\* 3000 ms after the first of the three presses.
C28_TriggerWithinThreeSeconds ==
    [][(PowerPressStep /\ powerState # "triggered" /\ powerState' = "triggered") =>
         now - firstPressAt <= PRESS_TIMEOUT_MS]_vars

\* C29: a call of SOSService.trigger with no contact returns the no-contacts
\* failure whatever the network flag is; with a contact and the network flag
\* false it returns the network failure; in both cases nothing is sent; with a
\* contact and the network flag true it returns success and the SOS is sent.
TriggerStep == triggerCalls' = triggerCalls + 1

C29_PreconditionsInOrder ==
    [][TriggerStep =>
         /\ emergencyContacts = <<>> =>
               /\ lastTriggerResult' = "NO_EMERGENCY_CONTACTS"
               /\ UNCHANGED <<sosState, commits>>
         /\ (emergencyContacts # <<>> /\ ~networkStatus) =>
               /\ lastTriggerResult' = "NETWORK_DISCONNECTED"
               /\ UNCHANGED <<sosState, commits>>
         /\ (emergencyContacts # <<>> /\ networkStatus) =>
               /\ lastTriggerResult' = "success"
               /\ sosState'.sent
               /\ commits' = commits + 1]_vars

C29_Witness ==
    /\ lastTriggerResult = "NO_EMERGENCY_CONTACTS"
    /\ emergencyContacts = <<>>
    /\ ~networkStatus
    /\ triggerCalls = 1
    /\ ~sosState.sent

\* C30: a step in which the power-button service is called or its timeout runs
\* leaves sosState, the press history and the countdown (handle and pending
\* timers) unchanged; a step of initiateSOS, cancelSOS, triggerSOS,
\* handleVolumeButtonPress or the countdown callback leaves the power-button
\* state, count and timeout unchanged.
CountdownMachine == <<sosState, buttonPresses, countdownTimer, timers>>
PressCountMachine == <<powerState, powerPressCount, pressTimeout, powerTimers>>

PowerStep ==
    \/ PowerPressStep
    \/ TimeoutStep
    \/ PressCountMachine' # PressCountMachine

CountdownStep ==
    \/ TriggerStep
    \/ PressStep
    \/ CountdownMachine' # CountdownMachine

C30_MachinesDoNotInteract ==
    [][/\ PowerStep => UNCHANGED CountdownMachine
       /\ CountdownStep => UNCHANGED PressCountMachine]_vars

\* both machines are part-way through: a countdown is pending after volume
\* presses while the power-button count runs
C30_Witness ==
    /\ sosState.initiated
    /\ countdownTimer # NullTimer
    /\ buttonPresses # <<>>
    /\ powerState = "counting"
    /\ powerPressCount = REQUIRED_PRESS_COUNT - 1
    /\ pressTimeout # NullTimer

\* C31: after a handleVolumeButtonPress at time t the history ends with the new
\* press, holds only presses stamped later than t - 10000 ms, and the presses
\* before the new one are exactly the old ones stamped later than t - 10000 ms
\* in their old order: a press stamped exactly t - 10000 ms is gone.
Retained(press) == press.timestamp > now - 10000

C32_ValidPressInitiates ==
    [][(/\ PressStep
        /\ buttonConfig # NullConfig
        /\ buttonPresses'[Len(buttonPresses')].button = buttonConfig.button
        /\ ~SomeGapAtLeast(buttonPresses', 5000)) =>
            /\ sosState'.initiated
            /\ uiState'.showCancelButton
            /\ countdownTimer' = nextTimerId
            /\ countdownTimer' \notin {t.id : t \in timers}
            /\ timers' = timers \cup {[id |-> countdownTimer', due |-> now + 3000]}]_vars

\* one press of the configured button on an empty history
C32_Witness ==
    /\ buttonConfig # NullConfig
    /\ pressCount = 1
    /\ Len(buttonPresses) = 1
    /\ buttonPresses[1].button = buttonConfig.button
    /\ sosState.initiated
    /\ countdownTimer = 1
    /\ timers = {[id |-> 1, due |-> buttonPresses[1].timestamp + 3000]}

\* C33: whenever no dispatch is in flight, totalNotifications is the number of
\* history entries of dispatches that passed their preconditions, each such
\* dispatch has exactly one entry, successfulSends + failedSends is the number
\* of per-contact attempts of those dispatches, and successfulSends is the
\* number of attempts that ended in a recorded sent message.
RECURSIVE SumOf(_)
SumOf(numbers) == IF numbers = <<>> THEN 0 ELSE Head(numbers) + SumOf(Tail(numbers))

Passed(entry) == ~entry.failed

Succeeded(entry) ==
    Cardinality({i \in 1..Len(entry.sendResults) :
                    entry.sendResults[i].value.result = "success"})

Outcomes == {"success", "failed"}

EntriesOf(id) == {i \in 1..Len(notificationHistory) : notificationHistory[i].id = id}

C34_RecordsAfterAllSettled ==
    /\ \A id \in DOMAIN inFlight :
          /\ EntriesOf(id) = {}
          /\ id \notin DOMAIN responses
          /\ inFlight[id].pc = "sending" =>
                /\ Len(inFlight[id].results) = Len(inFlight[id].contacts)
                /\ \A i \in 1..Len(inFlight[id].results) :
                      inFlight[id].results[i] \in Outcomes \cup {"pending"}
    /\ \A i \in 1..Len(notificationHistory) :
          Passed(notificationHistory[i]) =>
             /\ Len(notificationHistory[i].sendResults) = Len(notificationHistory[i].contacts)
             /\ \A k \in 1..Len(notificationHistory[i].sendResults) :
                   notificationHistory[i].sendResults[k].value.result \in Outcomes
             /\ notificationHistory[i].id \in DOMAIN responses
    /\ statistics.totalNotifications = Len(SelectSeq(notificationHistory, Passed))

\* two dispatches are sending at once, the older one with one send settled and
\* another still pending
C34_Witness ==
    \E id, other \in Sending :
        /\ id # other
        /\ \E i, k \in 1..Len(inFlight[id].results) :
              /\ inFlight[id].results[i] = "success"
              /\ inFlight[id].results[k] = "pending"

\* C35: once sosState.sent is true it stays true, and no later step commits
\* again: the timestamp is not rewritten and onSOSTriggered is not invoked.
C35_SentIsTerminal ==
    [][sosState.sent =>
         /\ sosState'.sent
         /\ sosState'.timestamp = sosState.timestamp
         /\ commits' = commits
         /\ callbackCalls' = callbackCalls]_vars

\* C36: whenever sosState.initiated is true and sosState.sent is false, a
\* countdown timer is pending.
C36_CountingHasTimer ==
    (sosState.initiated /\ ~sosState.sent) => timers # {}

\* C37: in every state of the power-button machine, IDLE goes with count 0 and
\* no timeout pending, COUNTING with count 1 or 2 and exactly one timeout
\* pending, the stored one, TRIGGERED with count 3 and no timeout pending; the
\* count is never above 3.
C37_PowerStateShape ==
    /\ powerState \in {"idle", "counting", "triggered"}
    /\ powerPressCount \in 0..3
    /\ powerState = "idle" =>
          powerPressCount = 0 /\ powerTimers = {} /\ pressTimeout = NullTimer
    /\ powerState = "counting" =>
          /\ powerPressCount \in {1, 2}
          /\ Cardinality(powerTimers) = 1
          /\ \A t \in powerTimers : t.id = pressTimeout
    /\ powerState = "triggered" =>
          powerPressCount = 3 /\ powerTimers = {} /\ pressTimeout = NullTimer

\* a press, a reset in the middle of counting, then two presses
C37_Witness ==
    /\ powerState = "counting"
    /\ powerPressCount = 2
    /\ powerPresses = 3
    /\ timeoutsFired = 0
    /\ Cardinality(powerTimers) = 1

\* C38: in every state of the registry the keys of the phone-keyed map are the
\* phones of the ordered list, and getContactCount() is the length of
\* getEmergencyContacts().
C38_MapAndListAgree ==
    /\ DOMAIN contactsByPhone = {contactOrder[i].phone : i \in 1..Len(contactOrder)}
    /\ getContactCount(contactsByPhone) = Len(getEmergencyContacts)

\* C39: sendEmergencySMS returns one result per contact, in contact order, and
\* a contact's result has success = true only if the direct send or the
\* deep-link fallback for that contact succeeded; a contact for which both
\* failed is reported with success = false.
C39_SmsResultsTruthful ==
    (smsCall.op = "send" /\ smsCall.contacts # <<>>) =>
        /\ ~smsResults.threw
        /\ Len(smsResults.results) = Len(smsCall.contacts)
        /\ \A i \in 1..Len(smsCall.contacts) :
              /\ smsResults.results[i].phoneNumber = smsCall.contacts[i].phoneNumber
              /\ smsResults.results[i].success =>
                    \/ (smsAvailable /\ smsCall.direct[i] = "completed")
                    \/ smsCall.deep[i] = "opened"
              /\ (smsCall.direct[i] # "completed" /\ smsCall.deep[i] # "opened") =>
                    ~smsResults.results[i].success

\* C40: a volume-change event that arrives with no press window open does not
\* call triggerEmergencyMode, and an event that arrives while
\* isEmergencyTriggered is true starts no second handling.
VolumeStep == volumeEvents' = volumeEvents + 1

C40_IsolatedEventNoTrigger ==
    [][VolumeStep =>
         /\ pressStartTime = NullTime => emergencyModeCalls' = emergencyModeCalls
         /\ isEmergencyTriggered => handlingsStarted' = handlingsStarted]_vars

====
